---- MODULE Spec2Model ----
(***************************************************************************)
(* Model of the workflow core of smart_agentic_assistant:                  *)
(*   workflow_core/src/schema.py          (WorkflowDefinition)             *)
(*   workflow_core/src/runtime/simple_executor.py (SimpleWorkflowExecutor) *)
(*   workflow_core/src/runtime/node_handlers.py   (handlers)               *)
(***************************************************************************)
EXTENDS Integers, Sequences, FiniteSets, TLC

VARIABLES
    nodes,            \* WorkflowDefinition.nodes, as the list of node ids
    depends_on,       \* WorkflowNode.depends_on of every node: id -> list of ids
    node_type,        \* WorkflowNode.type
    condition,        \* WorkflowNode.condition (None, or a template string)
    config,           \* WorkflowNode.config: list of <<key, template string>>
    on_error,         \* WorkflowNode.on_error
    retry,            \* WorkflowNode.retry
    timeout,          \* WorkflowNode.timeout
    variables,        \* WorkflowDefinition.variables
    initial_context,  \* execute()'s initial_context argument
    pc,               \* position of the caller / of execute()
    sort_result,      \* what a standalone topological_sort() call returned
    dep_errors,       \* what a standalone validate_dependencies() call returned
    resolved,         \* what a standalone _resolve_variables() call returned
    validation,       \* execute(): the dict returned by self.validate(workflow)
    sorted_nodes,     \* execute(): sorted_nodes
    idx,              \* execute(): position of the for loop in sorted_nodes
    context,          \* execute(): the ExecutionContext (variables, node_results)
    node_results,     \* execute(): node_results, id -> NodeResult
    handler_config,   \* the resolved config the running handler was given
    result,           \* the WorkflowExecutionResult returned by execute()
    events,           \* history: what the run did, in order
    runs,             \* two execute() calls in progress at once: the locals of each
    cli_pc,           \* run_workflow.py: position of main()
    exit_code,        \* run_workflow.py: the code the process exited with
    has_session,      \* task agent: session_manager.current_session is not None
    plan_steps,       \* task agent: Session.plan.steps
    completed_steps,  \* task agent: the log update_step_status appends to
    history,          \* task agent: Session.history
    budget,           \* task agent: Session.budget (TokenBudget)
    session_status,   \* task agent: Session.status
    registry,         \* task agent: the tools the registry server lists
    function_calls,   \* task agent: the tool_client.execute_function calls made
    returned          \* task agent: what the last call returned or raised

vars == <<nodes, depends_on, node_type, condition, config, on_error, retry,
          timeout, variables, initial_context, pc, sort_result, dep_errors, resolved, validation,
          sorted_nodes, idx, context, node_results, handler_config, result,
          events, runs, cli_pc, exit_code, has_session, plan_steps,
          completed_steps, history, budget, session_status, registry,
          function_calls, returned>>

workflow_vars == <<nodes, depends_on, node_type, condition, config, on_error,
                   retry, timeout, variables, initial_context>>

\* the command-line runner
cli_vars == <<cli_pc, exit_code>>

\* the task agent and its session
agent_vars == <<has_session, plan_steps, completed_steps, history, budget,
                session_status, registry, function_calls, returned>>

\* the state outside the workflow executor
other_vars == <<cli_vars, agent_vars>>

\* the results of the calls made outside execute()
call_vars == <<sort_result, dep_errors, resolved>>

run_vars == <<validation, sorted_nodes, idx, context, node_results,
              handler_config, result, events>>

-----------------------------------------------------------------------------
(* Bounds of the model *)

\* largest number of nodes of an executed workflow
MaxNodes == 2

\* longest depends_on list given to topological_sort / validate_dependencies
MaxDeps == 2

\* the node ids workflows are built from, in the order of the nodes list
NodeIds == <<"a", "b", "c">>

\* an id that is the id of no node
GhostId == "ghost"

-----------------------------------------------------------------------------
(* Helpers *)

Range(s) == {s[i] : i \in 1..Len(s)}

InSeq(x, s) == \E i \in 1..Len(s) : s[i] = x

IndexOf(x, s) == CHOOSE i \in 1..Len(s) : s[i] = x

\* all sequences over S of length at most n
SeqsUpTo(S, n) == UNION {[1..k -> S] : k \in 0..n}

None == <<"none">>

NotCalled == <<"not_called">>

Return(v) == <<"return", v>>

Raise(msg) == <<"raise", msg>>

-----------------------------------------------------------------------------
(* schema.py: WorkflowDefinition.validate_dependencies *)

RECURSIVE ValidateDependenciesFrom(_, _, _)
ValidateDependenciesFrom(ns, deps, i) ==
    IF i > Len(ns) THEN <<>>
    ELSE LET node == ns[i]
             missing == SelectSeq(deps[node], LAMBDA dep : dep \notin Range(ns))
         IN  [k \in 1..Len(missing) |->
                 [kind |-> "missing_dependency", node |-> node, ref |-> missing[k]]]
             \o ValidateDependenciesFrom(ns, deps, i + 1)

\* mutant: at most one error for a node, whatever the number of its missing
\* dependencies
ValidateDependencies_OnePerNode(ns, deps) ==
    LET bad == SelectSeq(ns, LAMBDA n : ~(Range(deps[n]) \subseteq Range(ns)))
    IN  [k \in 1..Len(bad) |->
            [kind |-> "missing_dependency", node |-> bad[k],
             ref |-> CHOOSE d \in Range(deps[bad[k]]) : d \notin Range(ns)]]

ValidateDependencies(ns, deps) == ValidateDependenciesFrom(ns, deps, 1)

-----------------------------------------------------------------------------
(* schema.py: WorkflowDefinition.topological_sort *)

\* lines 113-117: the for loop over self.nodes for one popped node
RECURSIVE ScanDependents(_, _, _, _, _, _)
ScanDependents(ns, deps, current, i, in_degree, queue) ==
    IF i > Len(ns) THEN [in_degree |-> in_degree, queue |-> queue]
    ELSE LET node == ns[i] IN
         IF InSeq(current, deps[node])
         THEN LET d == [in_degree EXCEPT ![node] = @ - 1] IN
              ScanDependents(ns, deps, current, i + 1, d,
                             IF d[node] = 0 THEN Append(queue, node) ELSE queue)
         ELSE ScanDependents(ns, deps, current, i + 1, in_degree, queue)

\* lines 108-117: the while loop
RECURSIVE KahnLoop(_, _, _, _, _)
KahnLoop(ns, deps, in_degree, queue, res) ==
    IF queue = <<>> THEN res
    ELSE LET current == Head(queue)
             s == ScanDependents(ns, deps, current, 1, in_degree, Tail(queue))
         IN  KahnLoop(ns, deps, s.in_degree, s.queue, Append(res, current))

\* mutant: the queue is seeded with the dependency-free nodes in reverse
\* definition order
KahnOrder_ReverseSeed(ns, deps) ==
    LET free == SelectSeq(ns, LAMBDA n : Len(deps[n]) = 0) IN
    KahnLoop(ns, deps,
             [id \in Range(ns) |-> Len(deps[id])],
             [i \in 1..Len(free) |-> free[Len(free) + 1 - i]],
             <<>>)

\* lines 101-117: the order produced before the length check
KahnOrder(ns, deps) ==
    KahnLoop(ns, deps,
             [id \in Range(ns) |-> Len(deps[id])],
             SelectSeq(ns, LAMBDA n : Len(deps[n]) = 0),
             <<>>)

CircularDependency == "Circular dependency detected in workflow"

\* mutant: the length check of lines 119-120 left out
TopologicalSort_NoLengthCheck(ns, deps) == Return(KahnOrder(ns, deps))

\* mutant: the nodes are returned in definition order
TopologicalSort_DefinitionOrder(ns, deps) == Return(ns)

TopologicalSort(ns, deps) ==
    LET res == KahnOrder(ns, deps) IN
    IF Len(res) # Len(ns) THEN Raise(CircularDependency) ELSE Return(res)

-----------------------------------------------------------------------------
(* The depends_on graph, defined without reference to the algorithm *)

\* dep -> node edges between existing nodes
Edges(ns, deps) == {e \in Range(ns) \X Range(ns) : InSeq(e[1], deps[e[2]])}

RECURSIVE ReachableFrom(_, _, _)
ReachableFrom(E, S, k) ==
    IF k = 0 THEN S
    ELSE ReachableFrom(E, S \cup {e[2] : e \in {f \in E : f[1] \in S}}, k - 1)

HasCycle(ns, deps) ==
    LET E == Edges(ns, deps) IN
    \E n \in Range(ns) :
        n \in ReachableFrom(E, {e[2] : e \in {f \in E : f[1] = n}}, Len(ns))

NoDangling(ns, deps) == \A n \in Range(ns) : Range(deps[n]) \subseteq Range(ns)

-----------------------------------------------------------------------------
(* Values: Python values the executor handles, tagged by type *)

BoolV(b) == <<"bool", b>>

IntV(i) == <<"int", i>>

StrV(s) == <<"str", s>>

\* f maps the keys (strings) of the dict to values
DictV(f) == <<"dict", f>>

ListV(s) == <<"list", s>>

IsNone(v) == v[1] = "none"

IsStr(v) == v[1] = "str"

IsDict(v) == v[1] = "dict"

\* dict.get(key): None when the key is missing
DictGet(v, key) == IF key \in DOMAIN v[2] THEN v[2][key] ELSE None

\* Python truthiness, bool(v)
Truthy(v) ==
    CASE v[1] = "none" -> FALSE
      [] v[1] = "bool" -> v[2]
      [] v[1] = "int"  -> v[2] # 0
      [] v[1] = "str"  -> v[2] # ""
      [] v[1] = "dict" -> DOMAIN v[2] # {}
      [] v[1] = "list" -> v[2] # <<>>

RECURSIVE JoinWith(_, _)
JoinWith(s, sep) ==
    IF s = <<>> THEN ""
    ELSE IF Len(s) = 1 THEN s[1]
    ELSE s[1] \o sep \o JoinWith(Tail(s), sep)

\* json.dumps(value) of simple_executor.py line 427, for the values that are
\* interpolated into a string; dicts of at most one key, and the dict
\* LogHandler returns (its keys in the order of node_handlers.py line 275)
RECURSIVE JsonDumps(_)
JsonDumps(v) ==
    CASE v[1] = "none" -> "null"
      [] v[1] = "bool" -> (IF v[2] THEN "true" ELSE "false")
      [] v[1] = "int"  -> ToString(v[2])
      [] v[1] = "str"  -> "\"" \o v[2] \o "\""
      [] v[1] = "list" ->
            "[" \o JoinWith([i \in 1..Len(v[2]) |-> JsonDumps(v[2][i])], ", ") \o "]"
      [] v[1] = "dict" /\ DOMAIN v[2] = {} -> "{}"
      [] v[1] = "dict" /\ Cardinality(DOMAIN v[2]) = 1 ->
            LET k == CHOOSE key \in DOMAIN v[2] : TRUE
            IN  "{\"" \o k \o "\": " \o JsonDumps(v[2][k]) \o "}"
      [] v[1] = "dict" /\ DOMAIN v[2] = {"logged", "message"} ->
            "{\"logged\": " \o JsonDumps(v[2]["logged"])
                \o ", \"message\": " \o JsonDumps(v[2]["message"]) \o "}"

-----------------------------------------------------------------------------
(* Template strings: a config or condition string, cut at its {{...}} matches
   (the regex \{\{([^}]+)\}\} of simple_executor.py lines 218 and 406) *)

Lit(text) == <<"lit", text>>

\* {{ path | filter | ... }}: path is the list of dot-separated segments
Ref(path, filters) == <<"ref", path, filters>>

IsRef(part) == part[1] = "ref"

\* the text of a reference path, as it is named in error messages
PathText(path) == JoinWith(path, ".")

\* match.group(1).strip(): the text between the braces
RefInner(part) ==
    IF part[3] = <<>> THEN PathText(part[2])
    ELSE PathText(part[2]) \o " | " \o JoinWith(part[3], " | ")

\* match.group(0): the reference as written
RefRaw(part) == "{{" \o RefInner(part) \o "}}"

RECURSIVE RawText(_)
RawText(tmpl) ==
    IF tmpl = <<>> THEN ""
    ELSE (IF IsRef(Head(tmpl)) THEN RefRaw(Head(tmpl)) ELSE Head(tmpl)[2])
         \o RawText(Tail(tmpl))

\* re.finditer / re.findall: the references of a string, in order
Matches(tmpl) == SelectSeq(tmpl, IsRef)

\* a config is a list of <<key, template>>; the dict as written, unresolved
OriginalConfig(cfg) ==
    [k \in {cfg[i][1] : i \in 1..Len(cfg)} |->
        StrV(RawText(cfg[CHOOSE i \in 1..Len(cfg) : cfg[i][1] = k][2]))]

-----------------------------------------------------------------------------
(* simple_executor.py: _resolve_variables and its inner functions *)

\* the filter names apply_filter knows (lines 295-332); any other name
\* returns the value as it is (line 344)
KnownFilters == {"length", "count", "upper", "lower", "trim", "strip",
                 "first", "last"}

\* len(value) inside the try of lines 298-301: 0 when len() raises
PyLenOrZero(value) ==
    CASE value[1] = "list" -> Len(value[2])
      [] value[1] = "dict" -> Cardinality(DOMAIN value[2])
      [] value[1] = "str"  -> Len(value[2])
      [] OTHER -> 0

\* hasattr(value, '__getitem__')
HasGetItem(value) == value[1] \in {"list", "dict", "str"}

\* str(value) of lines 304-310 for a value that is not None
PyStr(value) ==
    CASE value[1] = "str"  -> value[2]
      [] value[1] = "int"  -> ToString(value[2])
      [] value[1] = "bool" -> (IF value[2] THEN "True" ELSE "False")

\* str.upper() on the strings the model resolves
PyUpper(text) ==
    CASE text \in {"ada", "ADA"} -> "ADA"
      [] text \in {" ada ", " ADA "} -> " ADA "
      [] text \in {"3", "5"} -> text

\* str.lower() on the strings the model resolves
PyLower(text) ==
    CASE text \in {"ada", "ADA"} -> "ada"
      [] text \in {" ada ", " ADA "} -> " ada "
      [] text \in {"3", "5"} -> text

\* str.strip() on the strings the model resolves
PyStrip(text) ==
    CASE text \in {"ada", " ada "} -> "ada"
      [] text \in {"ADA", " ADA "} -> "ADA"
      [] text \in {"3", "5"} -> text

\* value[0] / value[-1] of lines 314 and 319 on a non-empty value that has
\* __getitem__; a dict with string keys raises KeyError
PyItem(value, filter_name) ==
    CASE value[1] = "list" ->
            Return(IF filter_name = "first" THEN value[2][1]
                   ELSE value[2][Len(value[2])])
      [] value[1] = "dict" -> Raise("KeyError")

\* apply_filter (lines 290-344) for the filters length, count, upper, lower,
\* trim, strip, first, last and the unknown ones
ApplyFilter(value, filter_name) ==
    CASE filter_name \in {"length", "count"} ->
            Return(IntV(IF IsNone(value) THEN 0 ELSE PyLenOrZero(value)))
      [] filter_name = "upper" ->
            Return(StrV(IF IsNone(value) THEN "" ELSE PyUpper(PyStr(value))))
      [] filter_name = "lower" ->
            Return(StrV(IF IsNone(value) THEN "" ELSE PyLower(PyStr(value))))
      [] filter_name \in {"trim", "strip"} ->
            Return(StrV(IF IsNone(value) THEN "" ELSE PyStrip(PyStr(value))))
      [] filter_name \in {"first", "last"} ->
            IF Truthy(value) /\ HasGetItem(value)
            THEN PyItem(value, filter_name)
            ELSE Return(None)
      [] filter_name \notin KnownFilters -> Return(value)

\* lines 358-359: the filters of one reference, left to right; r is the
\* outcome of the filters applied so far
RECURSIVE ApplyFiltersTo(_, _)
ApplyFiltersTo(r, filters) ==
    IF r[1] = "raise" \/ filters = <<>> THEN r
    ELSE ApplyFiltersTo(ApplyFilter(r[2], Head(filters)), Tail(filters))

\* mutant: the filters are applied from the last to the first
ApplyFilters_RightToLeft(value, filters) ==
    ApplyFiltersTo(Return(value),
                   [i \in 1..Len(filters) |-> filters[Len(filters) + 1 - i]])

ApplyFilters(value, filters) == ApplyFiltersTo(Return(value), filters)

\* getattr(value, part, None) on a value that is no dict: the segments used
\* here name no attribute of a Python int, bool, str or list
GetAttr(value, part) == None

\* lines 369-376 and 385-392: walk the segments after the first
RECURSIVE WalkPath(_, _)
WalkPath(value, parts) ==
    IF parts = <<>> THEN value
    ELSE IF IsNone(value) THEN None
    ELSE WalkPath(IF IsDict(value) THEN DictGet(value, Head(parts))
                  ELSE GetAttr(value, Head(parts)),
                  Tail(parts))

\* lines 370-372 and 378-380: a walk that ends on None after more than one
\* segment appends the path to unresolved_vars
Walked(v, path) ==
    [value |-> v,
     unresolved |-> IF IsNone(v) /\ Len(path) > 1 THEN {PathText(path)} ELSE {}]

\* mutant: the variables are looked up before the node results
ResolveBasePath_VariablesFirst(path, ctx) ==
    IF path[1] \in DOMAIN ctx.variables
    THEN Walked(WalkPath(ctx.variables[path[1]], Tail(path)), path)
    ELSE IF path[1] \in DOMAIN ctx.node_results
    THEN Walked(WalkPath(ctx.node_results[path[1]], Tail(path)), path)
    ELSE [value |-> None, unresolved |-> {PathText(path)}]

\* lines 363-400: a path without filters; node results first, then variables
ResolveBasePath(path, ctx) ==
    IF path[1] \in DOMAIN ctx.node_results
    THEN Walked(WalkPath(ctx.node_results[path[1]], Tail(path)), path)
    ELSE IF path[1] \in DOMAIN ctx.variables
    THEN Walked(WalkPath(ctx.variables[path[1]], Tail(path)), path)
    ELSE [value |-> None, unresolved |-> {PathText(path)}]

\* lines 355-361: the base value, then its filters
Filtered(base, f) ==
    [value |-> IF f[1] = "raise" THEN None ELSE f[2],
     unresolved |-> base.unresolved,
     raised |-> f[1] = "raise"]

FilterBase(base, filters) == Filtered(base, ApplyFilters(base.value, filters))

\* resolve_variable_path (lines 346-400) of one reference:
\* [value, unresolved (paths appended to unresolved_vars), raised]
ResolveVariablePath(part, ctx) == FilterBase(ResolveBasePath(part[2], ctx), part[3])

\* replace_var (lines 420-427): the text put in place of one reference
ReplaceVar(part, r) ==
    IF IsNone(r.value) THEN RefRaw(part)
    ELSE IF IsStr(r.value) THEN r.value[2]
    ELSE JsonDumps(r.value)

\* one match of re.sub: r is the resolution of the reference, rest the
\* substitution of what follows it (not reached when r raised)
SubstituteRef(part, r, rest) ==
    IF r.raised THEN [text |-> "", unresolved |-> r.unresolved, raised |-> TRUE]
    ELSE [text |-> ReplaceVar(part, r) \o rest.text,
          unresolved |-> r.unresolved \cup rest.unresolved,
          raised |-> rest.raised]

PrependText(text, rest) == [rest EXCEPT !.text = text \o @]

\* re.sub(pattern, replace_var, obj) (line 429), part by part
RECURSIVE Substitute(_, _)
Substitute(tmpl, ctx) ==
    IF tmpl = <<>> THEN [text |-> "", unresolved |-> {}, raised |-> FALSE]
    ELSE IF ~IsRef(Head(tmpl))
    THEN PrependText(Head(tmpl)[2], Substitute(Tail(tmpl), ctx))
    ELSE SubstituteRef(Head(tmpl), ResolveVariablePath(Head(tmpl), ctx),
                       Substitute(Tail(tmpl), ctx))

\* line 417: the value itself, or the string unchanged when it is None
NativeOrTemplate(r, tmpl) ==
    [r EXCEPT !.value = IF IsNone(@) THEN StrV(RawText(tmpl)) ELSE @]

Substituted(s) == [value |-> StrV(s.text), unresolved |-> s.unresolved, raised |-> s.raised]

\* mutant: a string that is one reference is substituted like any other
\* string, its value is put in as text
ResolveValue_AlwaysText(tmpl, ctx) ==
    IF Matches(tmpl) = <<>>
    THEN [value |-> StrV(RawText(tmpl)), unresolved |-> {}, raised |-> FALSE]
    ELSE Substituted(Substitute(tmpl, ctx))

\* resolve_value (lines 402-438) of one string
ResolveValue(tmpl, ctx) ==
    IF Matches(tmpl) = <<>>
    THEN [value |-> StrV(RawText(tmpl)), unresolved |-> {}, raised |-> FALSE]
    ELSE IF Len(tmpl) = 1
    THEN NativeOrTemplate(ResolveVariablePath(tmpl[1], ctx), tmpl)
    ELSE Substituted(Substitute(tmpl, ctx))

ConfigKeys(cfg) == {cfg[i][1] : i \in 1..Len(cfg)}

ConfigTemplate(cfg, k) == cfg[CHOOSE i \in 1..Len(cfg) : cfg[i][1] = k][2]

\* line 432: every value of the dict
ResolveValues(cfg, ctx) ==
    [k \in ConfigKeys(cfg) |-> ResolveValue(ConfigTemplate(cfg, k), ctx)]

UnresolvedError(paths) == [kind |-> "unresolved", paths |-> paths]

UnresolvedVars(r) == UNION {r[k].unresolved : k \in DOMAIN r}

\* lines 440-457, r the outcome of resolve_value on every value:
\* Raise(ValueError naming the unresolved paths), or Return(resolved config);
\* any other exception of resolve_value is caught at line 454 and the
\* original config is returned
Resolved(cfg, r) ==
    IF \E k \in DOMAIN r : r[k].raised
    THEN Return(OriginalConfig(cfg))
    ELSE IF UnresolvedVars(r) # {}
    THEN Raise(UnresolvedError(UnresolvedVars(r)))
    ELSE Return([k \in DOMAIN r |-> r[k].value])

\* _resolve_variables (lines 283-457)
ResolveVariables(cfg, ctx) == Resolved(cfg, ResolveValues(cfg, ctx))

-----------------------------------------------------------------------------
(* simple_executor.py: _should_execute_node *)

\* WorkflowNode.condition: None, or a string
NoCondition == None

Condition(tmpl) == <<"template", tmpl>>

\* eval(condition) of line 271 on the strings conditions resolve to here
PyEval(text) ==
    CASE text = "True"   -> Return(BoolV(TRUE))
      [] text = "False"  -> Return(BoolV(FALSE))
      [] text = "5 > 3"  -> Return(BoolV(TRUE))
      [] text = "5 > 10" -> Return(BoolV(FALSE))
      [] text = "__import__('sys').exit()" -> <<"exit", "SystemExit">>

\* bool(eval(...)) of line 271, or the except of line 276; SystemExit is a
\* BaseException and no Exception, `except Exception` does not catch it
EvalOutcome(e) ==
    IF e[1] = "raise" THEN "raised"
    ELSE IF e[1] = "exit" THEN "exit"
    ELSE IF Truthy(e[2]) THEN "true" ELSE "false"

\* line 271 on the resolved condition c: eval() of a value that is no string
\* raises TypeError
EvalCondition(c) == IF ~IsStr(c) THEN "raised" ELSE EvalOutcome(PyEval(c[2]))

\* lines 264-281, r the outcome of line 266
ResolvedConditionOutcome(r) ==
    IF r[1] = "raise" THEN "raised" ELSE EvalCondition(r[2]["expr"])

\* lines 257-281: "no_condition" (line 260), "true" / "false" (line 274),
\* "raised" (the except of line 276), or "exit" (an exception that is not
\* caught by line 276)
ConditionOutcome(cond, ctx) ==
    IF cond = NoCondition \/ RawText(cond[2]) = "" THEN "no_condition"
    ELSE ResolvedConditionOutcome(ResolveVariables(<< <<"expr", cond[2]>> >>, ctx))

\* mutant: the except of line 276 returns False, a failing condition skips
ShouldExecuteNode_SkipOnError(cond, ctx) ==
    ConditionOutcome(cond, ctx) \in {"no_condition", "true"}

\* _should_execute_node (lines 257-281): the except of line 276 returns True
ShouldExecuteNode(cond, ctx) == ConditionOutcome(cond, ctx) # "false"

-----------------------------------------------------------------------------
(* node_handlers.py *)

\* NodeHandlerRegistry.handlers (lines 306-313)
RegisteredTypes == {"function_call", "api_call", "transform", "condition",
                    "log", "delay"}

\* NodeHandlerRegistry.has_handler
HasHandler(type) == type \in RegisteredTypes

\* dict.get(key, default) on a resolved config
ConfigGet(cfg, key, default) == IF key \in DOMAIN cfg THEN cfg[key] ELSE default

\* LogHandler.execute (lines 265-275); level.upper() raises on a level that
\* is no string
LogHandlerOutcomes(cfg) ==
    IF ~IsStr(ConfigGet(cfg, "level", StrV("info")))
    THEN {Raise([kind |-> "handler", error |-> "AttributeError"])}
    ELSE {Return(DictV([logged |-> BoolV(TRUE),
                        message |-> ConfigGet(cfg, "message", StrV(""))]))}

\* APICallHandler.execute (lines 163-178): the request is answered or fails
APICallHandlerOutcomes(cfg) ==
    {Raise([kind |-> "handler", error |-> "ClientError"])}
    \cup IF IsStr(ConfigGet(cfg, "url", None))
         THEN {Return(DictV([status |-> IntV(200), data |-> StrV("ok"),
                             headers |-> DictV(<<>>)]))}
         ELSE {}

\* {"error": msg}
ErrorPayload(msg) == DictV([error |-> StrV(msg)])

\* the dict of lines 59-63 and 124-130: the operation is not implemented
TodoPayload(message) ==
    DictV([status |-> StrV("todo"), message |-> StrV(message)])

\* function_name.startswith("TODO:") on the names the model uses
IsTodoName(function_name) == function_name \in {"TODO: send"}

\* hasattr(self.workflow_tools, function_name): methods of WorkflowTools
WorkflowToolsMethods == {"list_nodes", "validate_workflow"}

\* lines 66-75: the WorkflowTools method returns, or raises and an error
\* dict is returned
WorkflowToolsOutcomes(function_name) ==
    {Return(DictV([status |-> StrV("success")])),
     Return(ErrorPayload("Error calling " \o function_name))}

\* lines 78-105: the two requests to the function registry succeed and the
\* response body is returned
RegistryHTTPOutcomes == {Return(DictV([result |-> StrV("ok")]))}

\* lines 108-151, reached after an HTTP error: the local registry, when the
\* module could be imported, does not know the function, or knows it as
\* TODO, MOCK or IMPLEMENTED; lines 153-157 without the module
LocalRegistryOutcomes(function_name) ==
    {Return(ErrorPayload("Function '" \o function_name
                          \o "' not found in registry or WorkflowTools")),
     Return(TodoPayload("Function '" \o function_name
                         \o "' is registered but not yet implemented")),
     Return(DictV([status |-> StrV("success"), mock |-> BoolV(TRUE)])),
     Return(DictV([status |-> StrV("success"),
                   result |-> StrV("Function executed successfully")])),
     Return(ErrorPayload("Function '" \o function_name \o "' not found"))}

\* FunctionCallHandler.execute (lines 47-157); self.workflow_tools is None
\* when WorkflowTools could not be created (simple_executor.py lines 36-45)
FunctionCallHandlerOutcomes(cfg) ==
    LET function_name == ConfigGet(cfg, "function_name", None) IN
    IF ~Truthy(function_name)
    THEN {Return(ErrorPayload("No function_name specified in config"))}
    ELSE IF ~IsStr(function_name)
    THEN {Raise([kind |-> "handler", error |-> "AttributeError"])}
    ELSE IF IsTodoName(function_name[2])
    THEN {Return(TodoPayload("Function not implemented: " \o function_name[2]))}
    ELSE (IF function_name[2] \in WorkflowToolsMethods
          THEN WorkflowToolsOutcomes(function_name[2]) ELSE {})
         \cup RegistryHTTPOutcomes
         \cup LocalRegistryOutcomes(function_name[2])

\* eval(expression, {"item": item, "acc": acc}) of lines 193, 198 and 206, on
\* the expressions the model uses; item and acc are integers
TransformEval(expression, item, acc) ==
    CASE expression = StrV("item * 2") -> Return(IntV(item * 2))
      [] expression = StrV("item > 1") -> Return(BoolV(item > 1))
      [] expression = StrV("acc + item") -> Return(IntV(acc + item))
      [] expression = StrV("item.price * 2") -> Raise("AttributeError")
      [] expression = StrV("items.map(x => x * 2)") -> Raise("SyntaxError")
      [] IsNone(expression) -> Raise("TypeError")

\* lines 193 and 198: the list comprehension, item by item
RECURSIVE TransformItems(_, _, _, _)
TransformItems(operation, expression, items, out) ==
    IF items = <<>> THEN Return(ListV(out))
    ELSE LET r == TransformEval(expression, Head(items)[2], 0) IN
         IF r[1] = "raise" THEN r
         ELSE TransformItems(operation, expression, Tail(items),
                             IF operation = "map" THEN Append(out, r[2])
                             ELSE IF Truthy(r[2]) THEN Append(out, Head(items))
                             ELSE out)

\* lines 203-207: the reduce loop
RECURSIVE TransformReduce(_, _, _)
TransformReduce(expression, items, acc) ==
    IF items = <<>> THEN Return(acc)
    ELSE LET r == TransformEval(expression, Head(items)[2], acc[2]) IN
         IF r[1] = "raise" THEN r
         ELSE TransformReduce(expression, Tail(items), r[2])

\* eval(expression, {"input": input_data, "context": context}) of line 212
\* on the expressions the model uses
TransformEvalCustom(expression, input_data) ==
    CASE expression = StrV("input") -> Return(input_data)
      [] expression = StrV("items.map(x => x * 2)") -> Raise("SyntaxError")
      [] IsNone(expression) -> Raise("TypeError")

\* the try block of lines 189-212; iterating an input that is None, a bool
\* or an int raises
TransformTry(cfg) ==
    LET input_data == ConfigGet(cfg, "input", None)
        operation == ConfigGet(cfg, "operation", None)
    IN  CASE operation \in {StrV("filter"), StrV("map"), StrV("reduce")}
               /\ input_data[1] \in {"none", "bool", "int"} -> Raise("TypeError")
          [] operation = StrV("filter") /\ input_data[1] = "list" ->
               TransformItems("filter", ConfigGet(cfg, "condition", None),
                              input_data[2], <<>>)
          [] operation = StrV("map") /\ input_data[1] = "list" ->
               TransformItems("map", ConfigGet(cfg, "expression", None),
                              input_data[2], <<>>)
          [] operation = StrV("reduce") /\ input_data[1] = "list" ->
               TransformReduce(ConfigGet(cfg, "expression", None), input_data[2],
                               ConfigGet(cfg, "initial", IntV(0)))
          [] operation \notin {StrV("filter"), StrV("map"), StrV("reduce")} ->
               TransformEvalCustom(ConfigGet(cfg, "expression", None), input_data)

\* [f"{prefix}{i}" for i in range(n)]
MockItems(prefix, n) == ListV([i \in 1..n |-> StrV(prefix \o ToString(i - 1))])

\* [f"contact{i+1}@example.com" for i in range(n)]
MockEmails(n) ==
    ListV([i \in 1..n |-> StrV("contact" \o ToString(i) \o "@example.com")])

\* the made-up contacts of lines 222-231, without their random title,
\* mailing_lists and slack_channels
MockContacts(n) ==
    ListV([i \in 1..n |->
             DictV([email |-> StrV("contact" \o ToString(i) \o "@example.com"),
                    name |-> StrV("Mock Contact " \o ToString(i))])])

\* the except block of lines 214-243: data made up from random numbers
TransformMockOutcomes(operation) ==
    CASE operation = StrV("custom") ->
            {Return(DictV([mock |-> BoolV(TRUE),
                           contacts_with_assignments |-> MockContacts(n),
                           all_contact_emails |-> MockEmails(m)])) :
                <<n, m>> \in (2..5) \X (2..5)}
      [] operation = StrV("map") ->
            {Return(MockItems("transformed_item_", n)) : n \in 2..5}
      [] operation = StrV("filter") ->
            {Return(MockItems("filtered_item_", n)) : n \in 1..3}
      [] OTHER ->
            {Return(DictV([mock |-> BoolV(TRUE), operation |-> operation,
                           status |-> StrV("mocked")]))}

\* TransformHandler.execute (lines 184-243)
TransformHandlerOutcomes(cfg) ==
    IF TransformTry(cfg)[1] = "return"
    THEN {TransformTry(cfg)}
    ELSE TransformMockOutcomes(ConfigGet(cfg, "operation", None))

\* mutant: the default handler rejects the node
PassthroughHandlerOutcomes_Raises(cfg) ==
    {Raise([kind |-> "handler", error |-> "unknown node type"])}

\* PassthroughHandler.execute (lines 291-293)
PassthroughHandlerOutcomes(cfg) == {Return(DictV(cfg))}

\* get_handler(node.type) and handler.execute(resolved_config, context):
\* every way the call can end
HandlerOutcomes(type, cfg) ==
    CASE type = "log" -> LogHandlerOutcomes(cfg)
      [] type = "api_call" -> APICallHandlerOutcomes(cfg)
      [] type = "function_call" -> FunctionCallHandlerOutcomes(cfg)
      [] type = "transform" -> TransformHandlerOutcomes(cfg)
      [] ~HasHandler(type) -> PassthroughHandlerOutcomes(cfg)

-----------------------------------------------------------------------------
(* simple_executor.py: validate *)

RECURSIVE Flatten(_)
Flatten(ss) == IF ss = <<>> THEN <<>> ELSE Head(ss) \o Flatten(Tail(ss))

\* re.findall over str(node.config): the references of all values, in order
ConfigMatches(cfg) == Flatten([i \in 1..Len(cfg) |-> Matches(cfg[i][2])])

\* lines 221-249 for one reference of one node: <<errors, warnings>>
CheckReference(node, part, ns, deps, conds, vars_) ==
    LET referenced_node == part[2][1]
        conditional_nodes == {n \in Range(ns) :
                                conds[n] # NoCondition /\ RawText(conds[n][2]) # ""}
    IN  IF referenced_node \notin DOMAIN vars_ /\ referenced_node \notin Range(ns)
        THEN << <<[kind |-> "undefined_reference", node |-> node,
                   ref |-> PathText(part[2])]>>, <<>> >>
        ELSE IF referenced_node \in conditional_nodes
        THEN << <<>>,
                <<[kind |-> IF InSeq(referenced_node, deps[node])
                            THEN "conditional_dependency"
                            ELSE "conditional_without_dependency",
                   node |-> node, ref |-> referenced_node]>> >>
        ELSE << <<>>, <<>> >>

\* lines 215-249: all references of all nodes
ReferenceChecks(ns, deps, conds, cfgs, vars_) ==
    Flatten([i \in 1..Len(ns) |->
        LET m == ConfigMatches(cfgs[ns[i]]) IN
        [k \in 1..Len(m) |-> CheckReference(ns[i], m[k], ns, deps, conds, vars_)]])


\* lines 196-204 and 232-235: the errors, in the order they are appended
ValidationErrors(ns, deps, conds, cfgs, vars_) ==
    LET dep_errs == ValidateDependencies(ns, deps)
        sort_errs == IF TopologicalSort(ns, deps)[1] = "raise"
                     THEN <<[kind |-> "circular", node |-> "", ref |-> ""]>>
                     ELSE <<>>
        checks == ReferenceChecks(ns, deps, conds, cfgs, vars_)
    IN  dep_errs \o sort_errs \o Flatten([k \in 1..Len(checks) |-> checks[k][1]])

\* lines 206-209 and 238-249: the warnings, in the order they are appended
ValidationWarnings(ns, deps, types, conds, cfgs, vars_) ==
    LET unsupported == SelectSeq(ns, LAMBDA n : ~HasHandler(types[n]))
        type_warnings == [k \in 1..Len(unsupported) |->
                            [kind |-> "unsupported_type", node |-> unsupported[k],
                             ref |-> types[unsupported[k]]]]
        checks == ReferenceChecks(ns, deps, conds, cfgs, vars_)
    IN  type_warnings \o Flatten([k \in 1..Len(checks) |-> checks[k][2]])

\* mutant: is_valid does not depend on the errors found
Validate_AlwaysValid(ns, deps, types, conds, cfgs, vars_) ==
    [is_valid |-> TRUE,
     errors |-> ValidationErrors(ns, deps, conds, cfgs, vars_),
     warnings |-> ValidationWarnings(ns, deps, types, conds, cfgs, vars_)]

\* mutant: a workflow with warnings is not valid
Validate_WarningsBlock(ns, deps, types, conds, cfgs, vars_) ==
    [is_valid |-> /\ Len(ValidationErrors(ns, deps, conds, cfgs, vars_)) = 0
                  /\ Len(ValidationWarnings(ns, deps, types, conds, cfgs, vars_)) = 0,
     errors |-> ValidationErrors(ns, deps, conds, cfgs, vars_),
     warnings |-> ValidationWarnings(ns, deps, types, conds, cfgs, vars_)]

\* validate (lines 190-255)
Validate(ns, deps, types, conds, cfgs, vars_) ==
    [is_valid |-> Len(ValidationErrors(ns, deps, conds, cfgs, vars_)) = 0,
     errors |-> ValidationErrors(ns, deps, conds, cfgs, vars_),
     warnings |-> ValidationWarnings(ns, deps, types, conds, cfgs, vars_)]

-----------------------------------------------------------------------------
(* simple_executor.py: execute *)

Error(e) == <<"error", e>>

\* mutant: the output and the error change places
NodeResult_Swapped(id, status, output, error) ==
    [node_id |-> id, status |-> status, output |-> error, error |-> output]

\* mutant: every node is recorded as a success
NodeResult_AlwaysSuccess(id, status, output, error) ==
    [node_id |-> id, status |-> "success", output |-> output, error |-> error]

\* NodeResult (schema.py lines 134-141)
NodeResult(id, status, output, error) ==
    [node_id |-> id, status |-> status, output |-> output, error |-> error]

\* the fields WorkflowExecutionResult declares (schema.py lines 144-153),
\* without the ids and the times
ResultFields == {"status", "node_results", "error"}

\* WorkflowExecutionResult(..., warnings=execution_warnings): the pydantic
\* class keeps the declared fields and drops every other keyword
WorkflowExecutionResult(status, nr, error, warnings) ==
    LET kwargs == [status |-> status, node_results |-> nr, error |-> error,
                   warnings |-> warnings]
    IN  [f \in ResultFields |-> kwargs[f]]

EmptyMap == <<>>

\* d[key] = value on a dict
MapPut(map, key, value) ==
    [k \in DOMAIN map \cup {key} |-> IF k = key THEN value ELSE map[k]]

\* {**workflow.variables, **(initial_context or {})} (line 78)
MergeVariables(vars_, overrides) ==
    [k \in DOMAIN vars_ \cup DOMAIN overrides |->
        IF k \in DOMAIN overrides THEN overrides[k] ELSE vars_[k]]


\* mutant: a skipped node counts as a successful one
AggregateStatus_SkippedIsSuccess(nr) ==
    IF \A id \in DOMAIN nr : nr[id].status \in {"success", "skipped"} THEN "success"
    ELSE IF \E id \in DOMAIN nr : nr[id].status = "failed" THEN "failed"
    ELSE "partial"

\* lines 131-139
AggregateStatus(nr) ==
    LET has_failures == \E id \in DOMAIN nr : nr[id].status = "failed"
        all_success == \A id \in DOMAIN nr : nr[id].status = "success"
    IN  IF all_success THEN "success"
        ELSE IF has_failures THEN "failed"
        ELSE "partial"

\* mutant: on_error is not consulted, a failed node never stops the loop
ContinueAfterFailure_Always(node) == TRUE

\* mutant: a failed node always stops the loop
ContinueAfterFailure_Never(node) == FALSE

\* line 124
ContinueAfterFailure(node) == on_error[node] = StrV("continue")

\* mutant: the loop visits the second node of the order before the first
CurrentNode_SecondFirst ==
    sorted_nodes[IF Len(sorted_nodes) < 2 \/ idx > 2 THEN idx ELSE 3 - idx]

\* mutant: the loop takes the nodes from the end of the order
CurrentNode_FromEnd == sorted_nodes[Len(sorted_nodes) + 1 - idx]

CurrentNode == sorted_nodes[idx]

\* lines 56-87: validate, return at once when invalid, else set up the
\* context and compute the order
Execute_Begin ==
    /\ pc = "execute"
    /\ LET v == Validate(nodes, depends_on, node_type, condition, config, variables)
           order == TopologicalSort(nodes, depends_on)
       IN  /\ validation' = v
           /\ IF ~v.is_valid
              THEN /\ result' = WorkflowExecutionResult("failed", EmptyMap,
                                    Error([kind |-> "validation", errors |-> v.errors]),
                                    v.warnings)
                   /\ pc' = "done"
                   /\ UNCHANGED <<context, node_results, sorted_nodes, idx>>
              ELSE /\ context' = [variables |-> MergeVariables(variables, initial_context),
                                  node_results |-> EmptyMap]
                   /\ node_results' = EmptyMap
                   /\ IF order[1] = "raise"
                      THEN /\ result' = WorkflowExecutionResult("failed", EmptyMap,
                                            Error([kind |-> "exception", errors |-> <<order[2]>>]),
                                            v.warnings)
                           /\ pc' = "done"
                           /\ UNCHANGED <<sorted_nodes, idx>>
                      ELSE /\ sorted_nodes' = order[2]
                           /\ idx' = 1
                           /\ pc' = "loop"
                           /\ UNCHANGED result
    /\ UNCHANGED <<other_vars, workflow_vars, runs, call_vars, handler_config, events>>

\* lines 90-100: the next node of the loop; its condition is evaluated, and a
\* node whose condition is false is recorded skipped
CheckCondition ==
    /\ pc = "loop"
    /\ idx <= Len(sorted_nodes)
    /\ LET node == CurrentNode
           outcome == ConditionOutcome(condition[node], context)
       IN  /\ events' = Append(events, <<"condition", node, outcome>>)
           /\ IF outcome = "exit"
              THEN /\ pc' = "escaped"
                   /\ UNCHANGED <<node_results, context, idx>>
              ELSE IF ~ShouldExecuteNode(condition[node], context)
              THEN /\ node_results' = MapPut(node_results, node,
                                             NodeResult(node, "skipped", None, None))
                   /\ context' = [context EXCEPT !.node_results = MapPut(@, node, None)]
                   /\ idx' = idx + 1
                   /\ pc' = "loop"
              ELSE /\ pc' = "execute_node"
                   /\ UNCHANGED <<node_results, context, idx>>
    /\ UNCHANGED <<other_vars, workflow_vars, runs, call_vars, validation, sorted_nodes,
                   handler_config, result>>

\* mutant: a failed node that asks for a retry is run a second time
NodeFailed_RetryOnce(node, e) ==
    /\ node_results' = MapPut(node_results, node, NodeResult(node, "failed", None, Error(e)))
    /\ IF on_error[node] = StrV("retry") /\ node \notin DOMAIN node_results
       THEN idx' = idx /\ pc' = "execute_node"
       ELSE idx' = idx /\ pc' = "aggregate"
    /\ UNCHANGED context

\* lines 115-128: the node failed with exception e
NodeFailed(node, e) ==
    /\ node_results' = MapPut(node_results, node, NodeResult(node, "failed", None, Error(e)))
    /\ IF ContinueAfterFailure(node)
       THEN idx' = idx + 1 /\ pc' = "loop"
       ELSE idx' = idx /\ pc' = "aggregate"
    /\ UNCHANGED context

\* lines 103-105 and execute_node (lines 175-186) up to the await of the
\* handler: the config is resolved, and the handler is started unless the
\* resolution raised
ExecuteNode ==
    /\ pc = "execute_node"
    /\ LET node == CurrentNode
           r == ResolveVariables(config[node], context)
       IN  IF r[1] = "raise"
           THEN /\ NodeFailed(node, r[2])
                /\ UNCHANGED <<handler_config, events>>
           ELSE /\ handler_config' = r[2]
                /\ events' = Append(events, <<"handler_start", node, "">>)
                /\ pc' = "in_handler"
                /\ UNCHANGED <<node_results, context, idx>>
    /\ UNCHANGED <<other_vars, workflow_vars, runs, call_vars, validation, sorted_nodes, result>>

\* the awaited handler.execute() returns or raises (lines 105-128)
HandlerFinish ==
    /\ pc = "in_handler"
    /\ \E o \in HandlerOutcomes(node_type[CurrentNode], handler_config) :
       LET node == CurrentNode IN
       /\ events' = Append(events, <<"handler_end", node, o[1]>>)
       /\ IF o[1] = "return"
          THEN /\ node_results' = MapPut(node_results, node,
                                         NodeResult(node, "success", o[2], None))
               /\ context' = [context EXCEPT !.node_results = MapPut(@, node, o[2])]
               /\ idx' = idx + 1
               /\ pc' = "loop"
          ELSE NodeFailed(node, o[2])
    /\ UNCHANGED <<other_vars, workflow_vars, runs, call_vars, validation, sorted_nodes,
                   handler_config, result>>

\* lines 130-152: after the loop ended or was left by break
Aggregate ==
    /\ \/ pc = "aggregate"
       \/ pc = "loop" /\ idx > Len(sorted_nodes)
    /\ result' = WorkflowExecutionResult(AggregateStatus(node_results), node_results, None,
                                       validation.warnings)
    /\ pc' = "done"
    /\ UNCHANGED <<other_vars, workflow_vars, runs, call_vars, validation, sorted_nodes,
                   idx, context, node_results, handler_config, events>>

-----------------------------------------------------------------------------
(* The workflows the model runs *)

\* WorkflowDefinition.variables of the executed workflows
WorkflowVariables ==
    [flag |-> BoolV(FALSE), x |-> IntV(5), d |-> DictV([k |-> IntV(1)])]

RefX == Ref(<<"x">>, <<>>)

ConfigPlain == << <<"message", <<Lit("x="), RefX>> >> >>

ConfigUrl == << <<"url", <<Lit("http://h")>> >> >>

\* two references that cannot be resolved: d has no key missing, d.k is 1
ConfigUnresolved ==
    << <<"message", <<Ref(<<"d", "missing">>, <<>>), Lit(" "),
                      Ref(<<"d", "k", "z">>, <<>>)>> >> >>

\* an unresolved reference beside a reference whose filter raises
ConfigFilterRaises ==
    << <<"message", <<Ref(<<"d", "missing">>, <<>>)>> >>,
       <<"data", <<Ref(<<"d">>, <<"first">>)>> >> >>

\* a reference to nothing the workflow defines
ConfigUndefined == << <<"message", <<Ref(<<"nope">>, <<>>)>> >> >>

\* a reference to the output of node a
ConfigNodeRef == << <<"message", <<Ref(<<"a", "status">>, <<>>)>> >> >>

\* WorkflowNode.retry and WorkflowNode.timeout of the nodes: a node that
\* asks for a retry on error carries a retry configuration and a timeout
RetryFor(oe) ==
    IF oe = StrV("retry") THEN DictV([max_attempts |-> IntV(3)]) ELSE None

TimeoutFor(oe) == IF oe = StrV("retry") THEN IntV(30) ELSE None

NodeTemplate(type, cond, cfg, oe) ==
    [type |-> type, condition |-> cond, config |-> cfg, on_error |-> oe]

NodeTemplates ==
    { NodeTemplate("log", NoCondition, ConfigPlain, None),
      NodeTemplate("api_call", NoCondition, ConfigUrl, None),
      NodeTemplate("api_call", NoCondition, ConfigUrl, StrV("continue")),
      NodeTemplate("api_call", NoCondition, ConfigUrl, StrV("retry")),
      NodeTemplate("log", Condition(<<Lit("False")>>), <<>>, None),
      NodeTemplate("log", Condition(<<RefX, Lit(" > 10")>>), ConfigPlain, None),
      NodeTemplate("log", Condition(<<RefX, Lit(" > 3")>>), ConfigPlain, None),
      NodeTemplate("log", Condition(<<Ref(<<"flag">>, <<>>)>>), <<>>, None),
      NodeTemplate("log", Condition(<<Ref(<<"nope">>, <<>>), Lit(" > 1")>>), <<>>, None),
      NodeTemplate("log", NoCondition, ConfigUnresolved, StrV("fail")),
      NodeTemplate("log", NoCondition, ConfigFilterRaises, None),
      NodeTemplate("log", NoCondition, ConfigUndefined, None),
      NodeTemplate("log", NoCondition, ConfigNodeRef, None) }

\* depends_on of a node of an executed workflow: nothing, or one id (of a
\* node, of the node itself, or of no node)
ExecDepends(ns) == {<<>>} \cup {<<id>> : id \in Range(ns) \cup {GhostId}}

\* no second execute() call is modelled
NoRuns == <<>>

\* the process has not called sys.exit
NotExited == -1

\* the command-line runner is not in use
NoCLI ==
    /\ cli_pc = "unused"
    /\ exit_code = NotExited

\* an Action (models.py:226-256): the fields execute_action reads; an empty
\* plan_step_id is the falsy value (None) of `if action.plan_step_id`
Action(category, name, step_id) ==
    [tool_category |-> category, tool_name |-> name, plan_step_id |-> step_id]

\* TokenBudget (models.py:434-440)
TokenBudget(max_tokens, max_turns, used_tokens, current_turn) ==
    [max_tokens |-> max_tokens, used_tokens |-> used_tokens,
     max_turns |-> max_turns, current_turn |-> current_turn]

\* the task agent is not in use
NoAgent ==
    /\ has_session = FALSE
    /\ plan_steps = <<>>
    /\ completed_steps = <<>>
    /\ history = <<>>
    /\ budget = TokenBudget(0, 0, 0, 0)
    /\ session_status = "active"
    /\ registry = {}
    /\ function_calls = <<>>
    /\ returned = [kind |-> "none", success |-> FALSE, status |-> ""]

NoRun ==
    /\ validation = NotCalled
    /\ sorted_nodes = <<>>
    /\ idx = 0
    /\ context = [variables |-> EmptyMap, node_results |-> EmptyMap]
    /\ node_results = EmptyMap
    /\ handler_config = EmptyMap
    /\ result = NotCalled
    /\ events = <<>>

\* a workflow of at most MaxNodes nodes, about to be executed
Init ==
    /\ \E n \in 0..MaxNodes :
         /\ nodes = SubSeq(NodeIds, 1, n)
         /\ depends_on \in [Range(nodes) -> ExecDepends(nodes)]
         /\ \E t \in [Range(nodes) -> NodeTemplates] :
              /\ node_type = [id \in Range(nodes) |-> t[id].type]
              /\ condition = [id \in Range(nodes) |-> t[id].condition]
              /\ config = [id \in Range(nodes) |-> t[id].config]
              /\ on_error = [id \in Range(nodes) |-> t[id].on_error]
              /\ retry = [id \in Range(nodes) |-> RetryFor(t[id].on_error)]
              /\ timeout = [id \in Range(nodes) |-> TimeoutFor(t[id].on_error)]
    /\ variables = WorkflowVariables
    /\ initial_context = EmptyMap
    /\ pc = "execute"
    /\ sort_result = NotCalled
    /\ dep_errors = NotCalled
    /\ resolved = NotCalled
    /\ NoCLI
    /\ NoAgent
    /\ runs = NoRuns
    /\ NoRun

Next ==
    \/ Execute_Begin
    \/ CheckCondition
    \/ ExecuteNode
    \/ HandlerFinish
    \/ Aggregate

Spec == Init /\ [][Next]_vars

-----------------------------------------------------------------------------
(* Workflows of function_call and transform nodes *)

HandlerVariables == [nums |-> ListV(<<IntV(1), IntV(2)>>), x |-> IntV(5)]

RefNums == Ref(<<"nums">>, <<>>)

ConfigFunction(function_name) == << <<"function_name", <<Lit(function_name)>> >> >>

ConfigTransform(operation, key, expression) ==
    << <<"operation", <<Lit(operation)>> >>,
       <<"input", <<RefNums>> >>,
       <<key, <<Lit(expression)>> >> >>

\* a reduce without its expression
ConfigReduceNoExpression ==
    << <<"operation", <<Lit("reduce")>> >>, <<"input", <<RefNums>> >> >>

HandlerTemplates ==
    { NodeTemplate("function_call", NoCondition, <<>>, None),
      NodeTemplate("function_call", NoCondition, ConfigFunction("TODO: send"), None),
      NodeTemplate("function_call", NoCondition, ConfigFunction("send_email"), None),
      NodeTemplate("function_call", NoCondition, ConfigFunction("list_nodes"), None),
      NodeTemplate("transform", NoCondition,
                   ConfigTransform("map", "expression", "item * 2"), None),
      NodeTemplate("transform", NoCondition,
                   ConfigTransform("map", "expression", "item.price * 2"), None),
      NodeTemplate("transform", NoCondition,
                   ConfigTransform("filter", "condition", "item > 1"), None),
      NodeTemplate("transform", NoCondition,
                   ConfigTransform("reduce", "expression", "acc + item"), None),
      NodeTemplate("transform", NoCondition,
                   ConfigTransform("custom", "expression", "items.map(x => x * 2)"),
                   None),
      NodeTemplate("transform", NoCondition,
                   ConfigTransform("custom", "expression", "input"), None),
      NodeTemplate("transform", NoCondition, ConfigReduceNoExpression, None),
      NodeTemplate("webhook", NoCondition, ConfigPlain, None),
      NodeTemplate("webhook", NoCondition, ConfigUndefined, None) }

\* a workflow of at most MaxNodes independent function_call and transform
\* nodes, about to be executed
InitHandlers ==
    /\ \E n \in 0..MaxNodes :
         /\ nodes = SubSeq(NodeIds, 1, n)
         /\ depends_on = [id \in Range(nodes) |-> <<>>]
         /\ \E t \in [Range(nodes) -> HandlerTemplates] :
              /\ node_type = [id \in Range(nodes) |-> t[id].type]
              /\ condition = [id \in Range(nodes) |-> t[id].condition]
              /\ config = [id \in Range(nodes) |-> t[id].config]
              /\ on_error = [id \in Range(nodes) |-> t[id].on_error]
              /\ retry = [id \in Range(nodes) |-> RetryFor(t[id].on_error)]
              /\ timeout = [id \in Range(nodes) |-> TimeoutFor(t[id].on_error)]
    /\ variables = HandlerVariables
    /\ initial_context = EmptyMap
    /\ pc = "execute"
    /\ sort_result = NotCalled
    /\ dep_errors = NotCalled
    /\ resolved = NotCalled
    /\ NoCLI
    /\ NoAgent
    /\ runs = NoRuns
    /\ NoRun

SpecHandlers == InitHandlers /\ [][Next]_vars

-----------------------------------------------------------------------------
(* Workflows run with variables supplied by the caller of execute() *)

\* the message is the value of x, a key of workflow.variables
ConfigWorkflowKey == << <<"message", <<RefX>> >> >>

\* the message is the value of y, which workflow.variables does not define
ConfigCallerKey == << <<"message", <<Ref(<<"y">>, <<>>)>> >> >>

CallerTemplates ==
    { NodeTemplate("log", NoCondition, ConfigPlain, None),
      NodeTemplate("log", NoCondition, ConfigWorkflowKey, None),
      NodeTemplate("log", NoCondition, ConfigCallerKey, None) }

\* a workflow of at most MaxNodes independent log nodes, about to be
\* executed with no initial_context, or with one that sets x, y or both
InitCaller ==
    /\ \E n \in 0..MaxNodes :
         /\ nodes = SubSeq(NodeIds, 1, n)
         /\ depends_on = [id \in Range(nodes) |-> <<>>]
         /\ \E t \in [Range(nodes) -> CallerTemplates] :
              /\ node_type = [id \in Range(nodes) |-> t[id].type]
              /\ condition = [id \in Range(nodes) |-> t[id].condition]
              /\ config = [id \in Range(nodes) |-> t[id].config]
              /\ on_error = [id \in Range(nodes) |-> t[id].on_error]
              /\ retry = [id \in Range(nodes) |-> RetryFor(t[id].on_error)]
              /\ timeout = [id \in Range(nodes) |-> TimeoutFor(t[id].on_error)]
    /\ variables = WorkflowVariables
    /\ \/ initial_context = EmptyMap
       \/ initial_context = [x |-> IntV(7)]
       \/ initial_context = [y |-> IntV(9)]
       \/ initial_context = [x |-> IntV(7), y |-> IntV(9)]
    /\ pc = "execute"
    /\ sort_result = NotCalled
    /\ dep_errors = NotCalled
    /\ resolved = NotCalled
    /\ NoCLI
    /\ NoAgent
    /\ runs = NoRuns
    /\ NoRun

SpecCaller == InitCaller /\ [][Next]_vars

-----------------------------------------------------------------------------
(* Two execute() calls on one executor and one workflow, in progress at the
   same time.  Each call has its own locals (validation, context,
   node_results, sorted_nodes, the loop position); the workflow and the
   handler registry are shared.  A call can give way to the other one at an
   await; the model lets the calls alternate after every step, which
   includes every such point. *)

RunIds == {1, 2}

\* the locals of an execute() call that has not run yet
NewRun ==
    [pc |-> "execute", validation |-> NotCalled, sorted_nodes |-> <<>>, idx |-> 0,
     context |-> [variables |-> EmptyMap, node_results |-> EmptyMap],
     node_results |-> EmptyMap, handler_config |-> EmptyMap, result |-> NotCalled]

\* mutant: every call reads the context of the first call
RunContext_Shared(rs, r) == rs[1].context

\* the local variable context of call r (lines 75-80)
RunContext(rs, r) == rs[r].context

\* the node call r is at
RunNode(r) == runs[r].sorted_nodes[runs[r].idx]

\* lines 56-87 in call r
RunBegin(r) ==
    /\ runs[r].pc = "execute"
    /\ LET v == Validate(nodes, depends_on, node_type, condition, config, variables)
           order == TopologicalSort(nodes, depends_on)
       IN  runs' = [runs EXCEPT ![r] =
             IF ~v.is_valid
             THEN [@ EXCEPT !.validation = v, !.pc = "done",
                     !.result = WorkflowExecutionResult("failed", EmptyMap,
                         Error([kind |-> "validation", errors |-> v.errors]),
                         v.warnings)]
             ELSE IF order[1] = "raise"
             THEN [@ EXCEPT !.validation = v, !.pc = "done",
                     !.context = [variables |-> MergeVariables(variables, initial_context),
                                  node_results |-> EmptyMap],
                     !.result = WorkflowExecutionResult("failed", EmptyMap,
                         Error([kind |-> "exception", errors |-> <<order[2]>>]),
                         v.warnings)]
             ELSE [@ EXCEPT !.validation = v, !.pc = "loop",
                     !.context = [variables |-> MergeVariables(variables, initial_context),
                                  node_results |-> EmptyMap],
                     !.sorted_nodes = order[2], !.idx = 1]]
    /\ UNCHANGED <<other_vars, workflow_vars, call_vars, pc, run_vars>>

\* lines 90-100 in call r
RunCheckCondition(r) ==
    /\ runs[r].pc = "loop"
    /\ runs[r].idx <= Len(runs[r].sorted_nodes)
    /\ LET node == RunNode(r) IN
       runs' = [runs EXCEPT ![r] =
          IF ~ShouldExecuteNode(condition[node], RunContext(runs, r))
          THEN [@ EXCEPT !.node_results =
                            MapPut(@, node, NodeResult(node, "skipped", None, None)),
                         !.context.node_results = MapPut(@, node, None),
                         !.idx = @ + 1]
          ELSE [@ EXCEPT !.pc = "execute_node"]]
    /\ UNCHANGED <<other_vars, workflow_vars, call_vars, pc, run_vars>>

\* lines 115-128 in a call with locals run: the node failed with exception e
RunNodeFailed(run, node, e) ==
    [run EXCEPT !.node_results =
                    MapPut(@, node, NodeResult(node, "failed", None, Error(e))),
                !.idx = IF ContinueAfterFailure(node) THEN @ + 1 ELSE @,
                !.pc = IF ContinueAfterFailure(node) THEN "loop" ELSE "aggregate"]

\* lines 103-105 and 175-186 in call r, up to the await of the handler
RunExecuteNode(r) ==
    /\ runs[r].pc = "execute_node"
    /\ LET node == RunNode(r)
           res == ResolveVariables(config[node], RunContext(runs, r))
       IN  runs' = [runs EXCEPT ![r] =
              IF res[1] = "raise"
              THEN RunNodeFailed(@, node, res[2])
              ELSE [@ EXCEPT !.handler_config = res[2], !.pc = "in_handler"]]
    /\ UNCHANGED <<other_vars, workflow_vars, call_vars, pc, run_vars>>

\* the handler awaited by call r returns or raises (lines 105-128)
RunHandlerFinish(r) ==
    /\ runs[r].pc = "in_handler"
    /\ \E o \in HandlerOutcomes(node_type[RunNode(r)], runs[r].handler_config) :
       LET node == RunNode(r) IN
       runs' = [runs EXCEPT ![r] =
          IF o[1] = "return"
          THEN [@ EXCEPT !.node_results =
                            MapPut(@, node, NodeResult(node, "success", o[2], None)),
                         !.context.node_results = MapPut(@, node, o[2]),
                         !.idx = @ + 1, !.pc = "loop"]
          ELSE RunNodeFailed(@, node, o[2])]
    /\ UNCHANGED <<other_vars, workflow_vars, call_vars, pc, run_vars>>

\* lines 130-152 in call r
RunAggregate(r) ==
    /\ \/ runs[r].pc = "aggregate"
       \/ runs[r].pc = "loop" /\ runs[r].idx > Len(runs[r].sorted_nodes)
    /\ runs' = [runs EXCEPT ![r] =
          [@ EXCEPT !.pc = "done",
                    !.result = WorkflowExecutionResult(
                        AggregateStatus(runs[r].node_results), runs[r].node_results,
                        None, runs[r].validation.warnings)]]
    /\ UNCHANGED <<other_vars, workflow_vars, call_vars, pc, run_vars>>

\* a reference to the data of node a, which is no variable
ConfigNodeData == << <<"message", <<Ref(<<"a", "data">>, <<>>)>> >> >>

TwoRunTemplates ==
    { NodeTemplate("api_call", NoCondition, ConfigUrl, StrV("continue")),
      NodeTemplate("log", Condition(<<Lit("False")>>), <<>>, None),
      NodeTemplate("log", NoCondition, ConfigNodeData, None) }

\* a workflow of one to MaxNodes independent nodes, and two execute() calls
\* of it about to start
InitTwoRuns ==
    /\ \E n \in 1..MaxNodes :
         /\ nodes = SubSeq(NodeIds, 1, n)
         /\ depends_on = [id \in Range(nodes) |-> <<>>]
         /\ \E t \in [Range(nodes) -> TwoRunTemplates] :
              /\ node_type = [id \in Range(nodes) |-> t[id].type]
              /\ condition = [id \in Range(nodes) |-> t[id].condition]
              /\ config = [id \in Range(nodes) |-> t[id].config]
              /\ on_error = [id \in Range(nodes) |-> t[id].on_error]
              /\ retry = [id \in Range(nodes) |-> RetryFor(t[id].on_error)]
              /\ timeout = [id \in Range(nodes) |-> TimeoutFor(t[id].on_error)]
    /\ variables = WorkflowVariables
    /\ initial_context = EmptyMap
    /\ pc = "two_calls"
    /\ sort_result = NotCalled
    /\ dep_errors = NotCalled
    /\ resolved = NotCalled
    /\ NoCLI
    /\ NoAgent
    /\ runs = [r \in RunIds |-> NewRun]
    /\ NoRun

NextTwoRuns ==
    \E r \in RunIds :
        \/ RunBegin(r)
        \/ RunCheckCondition(r)
        \/ RunExecuteNode(r)
        \/ RunHandlerFinish(r)
        \/ RunAggregate(r)

SpecTwoRuns == InitTwoRuns /\ [][NextTwoRuns]_vars

-----------------------------------------------------------------------------
(* topological_sort and validate_dependencies called on their own *)

\* the three nodes a, b, c with every depends_on list of at most MaxDeps
\* entries, each the id of a node or of no node
InitSort ==
    /\ nodes = NodeIds
    /\ depends_on \in [Range(NodeIds) -> SeqsUpTo(Range(NodeIds) \cup {GhostId}, MaxDeps)]
    /\ node_type = [id \in Range(nodes) |-> "log"]
    /\ condition = [id \in Range(nodes) |-> NoCondition]
    /\ config = [id \in Range(nodes) |-> <<>>]
    /\ on_error = [id \in Range(nodes) |-> None]
    /\ retry = [id \in Range(nodes) |-> None]
    /\ timeout = [id \in Range(nodes) |-> None]
    /\ variables = EmptyMap
    /\ initial_context = EmptyMap
    /\ pc = "caller"
    /\ sort_result = NotCalled
    /\ dep_errors = NotCalled
    /\ resolved = NotCalled
    /\ NoCLI
    /\ NoAgent
    /\ runs = NoRuns
    /\ NoRun

\* mutant: the queue of line 105 is self.nodes itself, and pop(0) empties it
NodesAfterSort_QueueIsNodes(ns, deps) ==
    SelectSeq(ns, LAMBDA n : Len(deps[n]) # 0)

\* self.nodes after topological_sort (lines 98-122): in_degree, node_map,
\* queue and result are objects of their own, self.nodes is only iterated
NodesAfterSort(ns, deps) == ns

CallTopologicalSort ==
    /\ pc = "caller"
    /\ sort_result' = TopologicalSort(nodes, depends_on)
    /\ nodes' = NodesAfterSort(nodes, depends_on)
    /\ UNCHANGED <<other_vars, depends_on, node_type, condition, config, on_error, retry,
                   timeout, variables, initial_context, runs, pc, dep_errors,
                   resolved, run_vars>>

CallValidateDependencies ==
    /\ pc = "caller"
    /\ dep_errors' = Return(ValidateDependencies(nodes, depends_on))
    /\ UNCHANGED <<other_vars, workflow_vars, runs, pc, sort_result, resolved, run_vars>>

NextSort == CallTopologicalSort \/ CallValidateDependencies

SpecSort == InitSort /\ [][NextSort]_vars

-----------------------------------------------------------------------------
(* _resolve_variables and validate called on their own: the workflow has the
   nodes a and b, b carries the config, and the context is one that execute()
   can have built when b is reached *)

\* WorkflowDefinition.variables; the name a is also the id of node a
ResolveVariablesMenu ==
    [x |-> IntV(5), flag |-> BoolV(TRUE),
     items |-> ListV(<<StrV("ada"), IntV(2), IntV(3)>>),
     name |-> StrV("ada"), s |-> StrV(" ada "),
     d |-> DictV([k |-> IntV(1)]), a |-> DictV([k |-> IntV(0)])]

\* context.node_results when b is reached: a failed (no entry), a was skipped
\* (None), or a succeeded with an output
NodeResultsMenu ==
    { EmptyMap,
      [a |-> None],
      [a |-> DictV([k |-> IntV(7)])],
      [a |-> DictV([j |-> IntV(7)])] }

Key(k, tmpl) == << <<k, tmpl>> >>

\* the config values of b: strings with one reference, with text around
\* references, with filters
TemplateMenu ==
    { <<Lit("plain")>>,
      <<Ref(<<"x">>, <<>>)>>,
      <<Lit("val="), Ref(<<"x">>, <<>>)>>,
      <<Ref(<<"flag">>, <<>>)>>,
      <<Ref(<<"flag">>, <<>>), Lit("!")>>,
      <<Ref(<<"items">>, <<>>)>>,
      <<Ref(<<"d">>, <<>>)>>,
      <<Ref(<<"d", "k">>, <<>>)>>,
      <<Ref(<<"x">>, <<>>), Lit("-"), Ref(<<"name">>, <<>>)>>,
      <<Ref(<<"items">>, <<"length">>)>>,
      <<Lit("n="), Ref(<<"items">>, <<"length">>)>>,
      <<Ref(<<"name">>, <<"upper">>)>>,
      <<Ref(<<"s">>, <<"trim", "upper">>)>>,
      <<Ref(<<"items">>, <<"first", "length">>)>>,
      <<Ref(<<"items">>, <<"length", "first">>)>>,
      <<Ref(<<"name">>, <<"length", "upper">>)>>,
      <<Ref(<<"name">>, <<"shout">>)>>,
      <<Ref(<<"a", "k">>, <<>>)>>,
      <<Lit("k="), Ref(<<"a", "k">>, <<>>)>>,
      <<Ref(<<"a">>, <<"length">>)>>,
      <<Ref(<<"nope">>, <<>>)>>,
      <<Ref(<<"nope", "k">>, <<"length">>)>>,
      <<Lit("v="), Ref(<<"nope">>, <<>>)>> }

\* the configs of b: one value, or one value beside a reference whose filter
\* raises
ConfigMenu ==
    {Key("message", t) : t \in TemplateMenu}
    \cup {Key("message", t) \o Key("zdata", <<Ref(<<"d">>, <<"first">>)>>) :
            t \in {<<Ref(<<"nope">>, <<>>)>>, <<Ref(<<"x">>, <<>>)>>}}

InitResolve ==
    /\ nodes = <<"a", "b">>
    /\ depends_on = [id \in Range(nodes) |-> <<>>]
    /\ node_type = [id \in Range(nodes) |-> "log"]
    /\ condition = [id \in Range(nodes) |-> NoCondition]
    /\ \E cfg \in ConfigMenu : config = [a |-> <<>>, b |-> cfg]
    /\ on_error = [id \in Range(nodes) |-> None]
    /\ retry = [id \in Range(nodes) |-> None]
    /\ timeout = [id \in Range(nodes) |-> None]
    /\ variables = ResolveVariablesMenu
    /\ initial_context = EmptyMap
    /\ pc = "caller"
    /\ sort_result = NotCalled
    /\ dep_errors = NotCalled
    /\ resolved = NotCalled
    /\ NoCLI
    /\ NoAgent
    /\ runs = NoRuns
    /\ validation = NotCalled
    /\ sorted_nodes = <<>>
    /\ idx = 0
    /\ \E nr \in NodeResultsMenu :
         context = [variables |-> MergeVariables(variables, initial_context),
                    node_results |-> nr]
    /\ node_results = EmptyMap
    /\ handler_config = EmptyMap
    /\ result = NotCalled
    /\ events = <<>>

\* self._resolve_variables(node.config, context) for node b
CallResolveVariables ==
    /\ pc = "caller"
    /\ resolved' = ResolveVariables(config["b"], context)
    /\ UNCHANGED <<other_vars, workflow_vars, runs, pc, sort_result, dep_errors, run_vars>>

\* self.validate(workflow)
CallValidate ==
    /\ pc = "caller"
    /\ validation' = Validate(nodes, depends_on, node_type, condition, config, variables)
    /\ events' = <<<<"validate", "", "">>>>
    /\ UNCHANGED <<other_vars, workflow_vars, runs, pc, call_vars, sorted_nodes, idx, context,
                   node_results, handler_config, result>>

NextResolve == CallResolveVariables \/ CallValidate

SpecResolve == InitResolve /\ [][NextResolve]_vars

-----------------------------------------------------------------------------
(* topological_sort, validate_dependencies and validate called, any number
   of times, before the workflow is executed *)

StandaloneTemplates ==
    { NodeTemplate("log", NoCondition, ConfigPlain, None),
      NodeTemplate("api_call", NoCondition, ConfigUrl, StrV("continue")) }

\* a workflow of at most MaxNodes nodes in the hands of a caller
InitStandalone ==
    /\ \E n \in 0..MaxNodes :
         /\ nodes = SubSeq(NodeIds, 1, n)
         /\ depends_on \in [Range(nodes) -> ExecDepends(nodes)]
         /\ \E t \in [Range(nodes) -> StandaloneTemplates] :
              /\ node_type = [id \in Range(nodes) |-> t[id].type]
              /\ condition = [id \in Range(nodes) |-> t[id].condition]
              /\ config = [id \in Range(nodes) |-> t[id].config]
              /\ on_error = [id \in Range(nodes) |-> t[id].on_error]
              /\ retry = [id \in Range(nodes) |-> RetryFor(t[id].on_error)]
              /\ timeout = [id \in Range(nodes) |-> TimeoutFor(t[id].on_error)]
    /\ variables = WorkflowVariables
    /\ initial_context = EmptyMap
    /\ pc = "caller"
    /\ sort_result = NotCalled
    /\ dep_errors = NotCalled
    /\ resolved = NotCalled
    /\ NoCLI
    /\ NoAgent
    /\ runs = NoRuns
    /\ NoRun

\* the caller calls execute(workflow)
StartExecute ==
    /\ pc = "caller"
    /\ pc' = "execute"
    /\ UNCHANGED <<other_vars, workflow_vars, runs, call_vars, run_vars>>

NextStandalone ==
    \/ CallTopologicalSort
    \/ CallValidateDependencies
    \/ CallValidate
    \/ StartExecute
    \/ Next

SpecStandalone == InitStandalone /\ [][NextStandalone]_vars

-----------------------------------------------------------------------------
(* run_workflow.py: the command-line runner, from main() to sys.exit *)

CLITemplates ==
    { NodeTemplate("log", NoCondition, ConfigPlain, None),
      NodeTemplate("log", Condition(<<Lit("False")>>), <<>>, None),
      NodeTemplate("api_call", NoCondition, ConfigUrl, StrV("continue")) }

\* main() is entered with a workflow file of at most MaxNodes nodes on disk
\* and with or without a key=value argument
InitCLI ==
    /\ \E n \in 0..MaxNodes :
         /\ nodes = SubSeq(NodeIds, 1, n)
         /\ depends_on \in [Range(nodes) -> ExecDepends(nodes)]
         /\ \E t \in [Range(nodes) -> CLITemplates] :
              /\ node_type = [id \in Range(nodes) |-> t[id].type]
              /\ condition = [id \in Range(nodes) |-> t[id].condition]
              /\ config = [id \in Range(nodes) |-> t[id].config]
              /\ on_error = [id \in Range(nodes) |-> t[id].on_error]
              /\ retry = [id \in Range(nodes) |-> RetryFor(t[id].on_error)]
              /\ timeout = [id \in Range(nodes) |-> TimeoutFor(t[id].on_error)]
    /\ variables = WorkflowVariables
    /\ \/ initial_context = EmptyMap
       \/ initial_context = [x |-> StrV("7")]
    /\ pc = "caller"
    /\ sort_result = NotCalled
    /\ dep_errors = NotCalled
    /\ resolved = NotCalled
    /\ cli_pc = "main"
    /\ exit_code = NotExited
    /\ NoAgent
    /\ runs = NoRuns
    /\ NoRun

\* main(), lines 279-288: no workflow file on the command line
MainUsage ==
    /\ cli_pc = "main"
    /\ cli_pc' = "usage"
    /\ exit_code' = 1
    /\ UNCHANGED <<agent_vars, workflow_vars, runs, pc, call_vars, run_vars>>

\* main(), lines 290-328: the arguments are parsed and the --config file, if
\* one is named, is loaded; any exception of the load exits with 1
MainLoadConfig ==
    /\ cli_pc = "main"
    /\ \E config_file \in {"none", "loads", "fails"} :
         IF config_file = "fails"
         THEN /\ cli_pc' = "config_error"
              /\ exit_code' = 1
         ELSE /\ cli_pc' = "run_workflow"
              /\ UNCHANGED exit_code
    /\ UNCHANGED <<agent_vars, workflow_vars, runs, pc, call_vars, run_vars>>

\* run_workflow(), lines 189-221: the workflow file is loaded; on an
\* exception run_workflow returns None, main takes `0 if None else 1` (line
\* 333); otherwise executor.execute(workflow, variables) is called
RunWorkflowLoad ==
    /\ cli_pc = "run_workflow"
    /\ \E loads \in BOOLEAN :
         IF loads
         THEN /\ cli_pc' = "executing"
              /\ pc' = "execute"
              /\ UNCHANGED exit_code
         ELSE /\ cli_pc' = "load_error"
              /\ exit_code' = 1
              /\ UNCHANGED pc
    /\ UNCHANGED <<agent_vars, workflow_vars, runs, call_vars, run_vars>>

\* run_workflow(), lines 226-274, with main's lines 333 and 337-341: execute
\* has returned; the report reads result.status, result.error and, on line
\* 239, result.warnings. An attribute the result does not have raises
\* AttributeError, which main catches as Exception and exits with 1;
\* otherwise run_workflow returns result.status == "success"
RunWorkflowReport ==
    /\ cli_pc = "executing"
    /\ pc = "done"
    /\ cli_pc' = "finished"
    /\ exit_code' = IF {"status", "error", "warnings"} \subseteq DOMAIN result
                    THEN IF result.status = "success" THEN 0 ELSE 1
                    ELSE 1
    /\ UNCHANGED <<agent_vars, workflow_vars, runs, pc, call_vars, run_vars>>

\* main(), lines 334-336: Ctrl-C while asyncio.run(run_workflow(...)) runs
KeyboardInterrupt ==
    /\ cli_pc \in {"run_workflow", "executing"}
    /\ cli_pc' = "interrupted"
    /\ exit_code' = 130
    /\ UNCHANGED <<agent_vars, workflow_vars, runs, pc, call_vars, run_vars>>

\* execute() runs while run_workflow awaits it
ExecutorStep == cli_pc = "executing" /\ Next

NextCLI ==
    \/ MainUsage
    \/ MainLoadConfig
    \/ RunWorkflowLoad
    \/ ExecutorStep
    \/ RunWorkflowReport
    \/ KeyboardInterrupt

SpecCLI == InitCLI /\ [][NextCLI]_vars

-----------------------------------------------------------------------------
(* execute() on workflows whose nodes reference the output of node a, which
   runs or is skipped by its condition *)

\* {{a}}: the output of node a as a whole
ConfigNodeId == << <<"message", <<Ref(<<"a">>, <<>>)>> >> >>

\* {{a.logged}}: a field of the output of node a
ConfigNodeField == << <<"message", <<Ref(<<"a", "logged">>, <<>>)>> >> >>

\* "got {{a}}": the output of node a inside a text
ConfigNodeIdInText == << <<"message", <<Lit("got "), Ref(<<"a">>, <<>>)>> >> >>

\* {{d | first}}: first raises on a dict (d[0] is a KeyError)
ConfigFirstOfDict == << <<"message", <<Ref(<<"d">>, <<"first">>)>> >> >>

ReferenceTemplates ==
    { NodeTemplate("log", NoCondition, ConfigPlain, None),
      NodeTemplate("log", Condition(<<Lit("False")>>), ConfigPlain, None),
      NodeTemplate("log", NoCondition, ConfigNodeId, None),
      NodeTemplate("log", NoCondition, ConfigNodeField, None),
      NodeTemplate("log", NoCondition, ConfigNodeIdInText, None),
      NodeTemplate("log", NoCondition, ConfigFirstOfDict, None) }

InitReferences ==
    /\ \E n \in 1..MaxNodes :
         /\ nodes = SubSeq(NodeIds, 1, n)
         /\ depends_on \in [Range(nodes) -> ExecDepends(nodes)]
         /\ \E t \in [Range(nodes) -> ReferenceTemplates] :
              /\ node_type = [id \in Range(nodes) |-> t[id].type]
              /\ condition = [id \in Range(nodes) |-> t[id].condition]
              /\ config = [id \in Range(nodes) |-> t[id].config]
              /\ on_error = [id \in Range(nodes) |-> t[id].on_error]
              /\ retry = [id \in Range(nodes) |-> RetryFor(t[id].on_error)]
              /\ timeout = [id \in Range(nodes) |-> TimeoutFor(t[id].on_error)]
    /\ variables = WorkflowVariables
    /\ initial_context = EmptyMap
    /\ pc = "execute"
    /\ sort_result = NotCalled
    /\ dep_errors = NotCalled
    /\ resolved = NotCalled
    /\ NoCLI
    /\ NoAgent
    /\ runs = NoRuns
    /\ NoRun

SpecReferences == InitReferences /\ [][Next]_vars

-----------------------------------------------------------------------------
(* execute() on workflows whose conditions return, raise an Exception, or
   raise SystemExit *)

ConditionTemplates ==
    { NodeTemplate("log", NoCondition, ConfigPlain, None),
      NodeTemplate("log", Condition(<<Lit("False")>>), ConfigPlain, None),
      NodeTemplate("log", Condition(<<Ref(<<"nope">>, <<>>), Lit(" > 1")>>), <<>>, None),
      NodeTemplate("api_call", NoCondition, ConfigUrl, StrV("continue")),
      NodeTemplate("log", Condition(<<Lit("__import__('sys').exit()")>>), ConfigPlain, None) }

InitConditions ==
    /\ \E n \in 0..MaxNodes :
         /\ nodes = SubSeq(NodeIds, 1, n)
         /\ depends_on \in [Range(nodes) -> ExecDepends(nodes)]
         /\ \E t \in [Range(nodes) -> ConditionTemplates] :
              /\ node_type = [id \in Range(nodes) |-> t[id].type]
              /\ condition = [id \in Range(nodes) |-> t[id].condition]
              /\ config = [id \in Range(nodes) |-> t[id].config]
              /\ on_error = [id \in Range(nodes) |-> t[id].on_error]
              /\ retry = [id \in Range(nodes) |-> RetryFor(t[id].on_error)]
              /\ timeout = [id \in Range(nodes) |-> TimeoutFor(t[id].on_error)]
    /\ variables = WorkflowVariables
    /\ initial_context = EmptyMap
    /\ pc = "execute"
    /\ sort_result = NotCalled
    /\ dep_errors = NotCalled
    /\ resolved = NotCalled
    /\ NoCLI
    /\ NoAgent
    /\ runs = NoRuns
    /\ NoRun

SpecConditions == InitConditions /\ [][Next]_vars

-----------------------------------------------------------------------------
(* task_agent: ContinuousPlanningAgent.execute_action and run_turn on a
   session (agent.py, session_manager.py, models.py) *)

\* the plan of a new session has at most MaxSteps steps
MaxSteps == 1

\* execute_action is followed until the turn counter or the number of tool
\* calls reaches MaxCalls
MaxCalls == 2

\* the token budget of a session
MaxTokens == 3

\* the tokens one evaluation by the model costs (agent.py:599-600)
EvaluationTokens == {1}

\* len(json.dumps(result)) // 4 of a tool result (agent.py:927)
ResultTokens == {1}

StepIds == <<"s1", "s2", "s3", "s4">>

\* PlanStep (models.py:89-100): the fields the agent writes
PlanStep(id, status) == [id |-> id, status |-> status]

\* the tools the registry server can list, as <<category, name>>
RegistryTools == {<<"slack", "send_message">>}

\* _validate_tool, line 106: the registry's own discovery tools
RegistryMetaTools ==
    {"registry_search", "registry_list_category", "registry_get_function"}

\* the tools an action can name: listed ones, a name its category does not
\* hold, a category the registry does not hold, and a discovery tool
ActionTools ==
    RegistryTools \cup {<<"slack", "invented">>, <<"web", "http_get">>,
                        <<"registry", "registry_search">>}

\* the Actions given to execute_action: the plan_step_id is empty, the id of
\* a step the plan held when the session started, or an id of no step
Actions ==
    {Action(t[1], t[2], s) : t \in ActionTools,
                             s \in {"", "none"} \cup Range(SubSeq(StepIds, 1, MaxSteps))}

\* what execute_action and run_turn return, or the exception that left them
Returned(kind, success, status) ==
    [kind |-> kind, success |-> success, status |-> status]

NoReturn == Returned("none", FALSE, "")

\* ExecutionResult (models.py:569-584)
ExecutionResult(success) == Returned("ExecutionResult", success, "")

\* TurnResult (models.py:545-567)
TurnResult(status) == Returned("TurnResult", FALSE, status)

Raised(exception) == Returned("raise", FALSE, exception)

\* HistoryEntry (models.py:382-406), as add_history_entry builds it
HistoryEntry(turn, a, success) ==
    [turn |-> turn, tool |-> <<a.tool_category, a.tool_name>>, success |-> success]

\* _get_tools_context, lines 85-95: the validation cache built from what
\* the registry lists
AvailableCategories(listed) == {t[1] : t \in listed}

\* mutant: every tool is taken for a tool of the registry
ValidateTool_AlwaysValid(category, tool_name, listed) == TRUE

\* _validate_tool (agent.py:100-121)
ValidateTool(category, tool_name, listed) ==
    IF category = "registry" /\ tool_name \in RegistryMetaTools THEN TRUE
    ELSE /\ category \in AvailableCategories(listed)
         /\ <<category, tool_name>> \in listed

HasStep(steps, step_id) == \E i \in 1..Len(steps) : steps[i].id = step_id

\* update_step_status (session_manager.py:200-238): the status of the step
\* with that id is set; a plan without such a step is left as it is
UpdateStepStatus(steps, step_id, status) ==
    [i \in 1..Len(steps) |->
        IF steps[i].id = step_id THEN [steps[i] EXCEPT !.status = status]
        ELSE steps[i]]

\* update_step_status, lines 226-234: for COMPLETED on a step of the plan,
\* `from models import CompletedStep` is executed; models.py defines no
\* CompletedStep, the import raises ImportError
UpdateStepStatusRaises(steps, step_id, status) ==
    status = "completed" /\ HasStep(steps, step_id)

\* `if action.plan_step_id:` followed by update_step_status
UpdateActionStep(steps, a, status) ==
    IF a.plan_step_id # "" THEN UpdateStepStatus(steps, a.plan_step_id, status)
    ELSE steps

\* TokenBudget.exceeded (models.py:450-452)
Exceeded(b) == b.used_tokens >= b.max_tokens \/ b.current_turn >= b.max_turns

executor_vars == <<workflow_vars, runs, pc, call_vars, run_vars>>

\* no workflow is executed
NoWorkflow ==
    /\ nodes = <<>>
    /\ depends_on = EmptyMap
    /\ node_type = EmptyMap
    /\ condition = EmptyMap
    /\ config = EmptyMap
    /\ on_error = EmptyMap
    /\ retry = EmptyMap
    /\ timeout = EmptyMap
    /\ variables = EmptyMap
    /\ initial_context = EmptyMap
    /\ pc = "unused"
    /\ sort_result = NotCalled
    /\ dep_errors = NotCalled
    /\ resolved = NotCalled
    /\ runs = NoRuns
    /\ NoRun

\* an agent without a session, in front of a registry that lists some tools
InitAgent ==
    /\ NoWorkflow
    /\ NoCLI
    /\ has_session = FALSE
    /\ plan_steps = <<>>
    /\ completed_steps = <<>>
    /\ history = <<>>
    /\ budget = TokenBudget(0, 0, 0, 0)
    /\ session_status = "active"
    /\ registry \in SUBSET RegistryTools
    /\ function_calls = <<>>
    /\ returned = NoReturn

\* start_session (agent.py:226-250) with create_session
\* (session_manager.py:39-76) and the plan of _generate_initial_plan
StartSession ==
    /\ ~has_session
    /\ has_session' = TRUE
    /\ \E n \in 1..MaxSteps :
         plan_steps' = [i \in 1..n |-> PlanStep(StepIds[i], "planned")]
    /\ \E max_turns \in 1..MaxCalls :
         budget' = TokenBudget(MaxTokens, max_turns, 0, 0)
    /\ history' = <<>>
    /\ session_status' = "active"
    /\ UNCHANGED <<completed_steps, registry, function_calls, returned>>
    /\ UNCHANGED <<cli_vars, executor_vars>>

\* execute_action, lines 884-935: the tool passed validation. The step is
\* marked IN_PROGRESS, the tool is called (a discovery tool by
\* _execute_registry_tool, any other by tool_client.execute_function) and
\* reports success or failure; the step is marked COMPLETED or FAILED, and
\* the call is added to the history, the turn is counted and the tokens of
\* the result are added, unless update_step_status raised
ExecuteValidated(a, success, tokens) ==
    /\ function_calls' = IF a.tool_category = "registry" THEN function_calls
                         ELSE Append(function_calls, <<a.tool_category, a.tool_name>>)
    /\ plan_steps' = UpdateActionStep(UpdateActionStep(plan_steps, a, "in_progress"), a,
                                      IF success THEN "completed" ELSE "failed")
    /\ IF a.plan_step_id # "" /\ success
          /\ UpdateStepStatusRaises(plan_steps, a.plan_step_id, "completed")
       THEN /\ returned' = Raised("ImportError")
            /\ UNCHANGED <<history, budget>>
       ELSE /\ history' = Append(history, HistoryEntry(budget.current_turn, a, success))
            /\ budget' = [budget EXCEPT !.current_turn = @ + 1,
                                        !.used_tokens = @ + tokens]
            /\ returned' = ExecutionResult(success)

\* execute_action (agent.py:857-935); `listed` is what the registry answers
\* to _get_tools_context: its tools, or nothing when the request fails
\* (tool_client.py:104-106)
ExecuteAction(a) ==
    /\ budget.current_turn < MaxCalls
    /\ Len(function_calls) < MaxCalls
    /\ IF ~has_session
       THEN /\ returned' = ExecutionResult(FALSE)
            /\ UNCHANGED <<plan_steps, history, budget, function_calls>>
       ELSE \E listed \in {registry, {}} :
            IF ~ValidateTool(a.tool_category, a.tool_name, listed)
            THEN /\ plan_steps' = UpdateActionStep(plan_steps, a, "failed")
                 /\ returned' = ExecutionResult(FALSE)
                 /\ UNCHANGED <<history, budget, function_calls>>
            ELSE \E success \in BOOLEAN : \E tokens \in ResultTokens :
                    ExecuteValidated(a, success, tokens)
    /\ UNCHANGED <<has_session, completed_steps, session_status, registry>>
    /\ UNCHANGED <<cli_vars, executor_vars>>

\* run_turn (agent.py:343-460) with _evaluate_and_plan (462-644): the budget
\* check; then the evaluation, which uses tokens and ends the turn with one
\* of the statuses (the goal is achieved, no action is proposed, an action
\* awaits approval); the answers evaluated here carry no plan_updates
RunTurn ==
    /\ IF ~has_session
       THEN /\ returned' = TurnResult("error")
            /\ UNCHANGED <<budget, session_status, plan_steps>>
       ELSE IF Exceeded(budget)
       THEN /\ session_status' = "budget_exceeded"
            /\ returned' = TurnResult("budget_exceeded")
            /\ UNCHANGED <<budget, plan_steps>>
       ELSE \E tokens \in EvaluationTokens :
            \E status \in {"completed", "no_action", "awaiting_approval"} :
              /\ budget' = [budget EXCEPT !.used_tokens = @ + tokens]
              /\ plan_steps' = plan_steps
              /\ session_status' = IF status = "completed" THEN "completed"
                                   ELSE session_status
              /\ returned' = TurnResult(status)
    /\ UNCHANGED <<has_session, completed_steps, history, registry, function_calls>>
    /\ UNCHANGED <<cli_vars, executor_vars>>

NextAgent ==
    \/ StartSession
    \/ \E a \in Actions : ExecuteAction(a)
    \/ RunTurn

SpecAgent == InitAgent /\ [][NextAgent]_vars

-----------------------------------------------------------------------------
(* Claims about topological_sort, checked under SpecSort *)

SortReturned == sort_result # NotCalled /\ sort_result[1] = "return"

SortRaised == sort_result = Raise(CircularDependency)

\* the returned list holds every node exactly once
IsPermutationOfNodes(order) ==
    /\ Len(order) = Len(nodes)
    /\ Range(order) = Range(nodes)

\* every dependency of a node stands strictly before the node
DependenciesFirst(order) ==
    \A n \in Range(nodes) : \A d \in Range(depends_on[n]) :
        /\ InSeq(d, order)
        /\ InSeq(n, order)
        /\ IndexOf(d, order) < IndexOf(n, order)

\* C1: for every workflow (unique node ids) whose depends_on graph is acyclic
\* and has no dangling id, topological_sort returns a list that holds every
\* node exactly once and every dependency of a node strictly before the node.
C1_SortOrdersEveryAcyclicGraph ==
    (sort_result # NotCalled /\ ~HasCycle(nodes, depends_on)
        /\ NoDangling(nodes, depends_on))
    => /\ SortReturned
       /\ IsPermutationOfNodes(sort_result[2])
       /\ DependenciesFirst(sort_result[2])

\* C2: for every workflow whose depends_on graph contains a cycle (a node
\* depending on itself included), topological_sort raises the 'Circular
\* dependency' error and returns no list.
C2_CycleRaises ==
    (sort_result # NotCalled /\ HasCycle(nodes, depends_on)) => SortRaised

\* a: depends_on [b], b: depends_on [a] (the cycle of the repository's test)
\* and c depending on itself, sorted
C2_Witness ==
    /\ SortRaised
    /\ depends_on["a"] = <<"b">>
    /\ depends_on["b"] = <<"a">>
    /\ depends_on["c"] = <<"c">>

-----------------------------------------------------------------------------
(* Claims about execute, checked under Spec *)

Done == pc = "done"

\* validate has been called by execute
Validated == pc # "execute"

Recorded(n) == n \in DOMAIN node_results

StatusOf(n) == node_results[n].status

\* the events the last step appended
NewEvents == {events'[i] : i \in (Len(events) + 1)..Len(events')}

\* C3: at the moment a node's condition is evaluated or its handler is
\* started, every node of its depends_on has finished and has a recorded
\* NodeResult: success, skipped, or failed with on_error = continue.
C3_DependenciesFinishFirst ==
    [][\A e \in NewEvents :
         e[1] \in {"condition", "handler_start"}
         => \A d \in Range(depends_on[e[2]]) :
              /\ Recorded(d)
              /\ \/ StatusOf(d) \in {"success", "skipped"}
                 \/ StatusOf(d) = "failed" /\ on_error[d] = StrV("continue")]_vars

\* the handler of a, which depends on b, is running after b succeeded
C3_Witness ==
    /\ pc = "in_handler"
    /\ CurrentNode = "a"
    /\ depends_on["a"] = <<"b">>
    /\ Recorded("b")
    /\ StatusOf("b") = "success"

\* n failed and its on_error is not 'continue'
FailedAborting(n) ==
    Recorded(n) /\ StatusOf(n) = "failed" /\ on_error[n] # StrV("continue")

LaterNodes(n) ==
    {m \in Range(sorted_nodes) : IndexOf(m, sorted_nodes) > IndexOf(n, sorted_nodes)}

\* C4: when a node fails and its on_error is not 'continue' (unset, 'fail',
\* 'retry'), no later node of the order has its condition evaluated or its
\* handler started, every later node is absent from node_results, the failed
\* node is recorded failed and the run status is failed.
C4_FailureStopsTheRun ==
    \A n \in Range(sorted_nodes) : FailedAborting(n) =>
        /\ \A m \in LaterNodes(n) :
             /\ ~Recorded(m)
             /\ \A i \in 1..Len(events) : events[i][2] # m
        /\ Done => /\ result.status = "failed"
                   /\ n \in DOMAIN result.node_results
                   /\ result.node_results[n].status = "failed"
                   /\ \A m \in LaterNodes(n) : m \notin DOMAIN result.node_results

\* a failed with on_error = 'retry', and b, which is after it, never ran
C4_Witness ==
    /\ Done
    /\ sorted_nodes = <<"a", "b">>
    /\ FailedAborting("a")
    /\ on_error["a"] = StrV("retry")
    /\ ~Recorded("b")

\* the paths of a node's config that cannot be resolved in the context
UnresolvedPaths(n) ==
    UNION {ResolveBasePath(m[2], context).unresolved :
              m \in Range(ConfigMatches(config[n]))}

\* C5: if the config of a node holds references that cannot be resolved when
\* the node is reached, its handler is not invoked and the node is recorded
\* failed with one error that names every distinct unresolved path.
C5_UnresolvedConfigFailsTheNode ==
    [][(pc = "execute_node" /\ UnresolvedPaths(CurrentNode) # {})
       => /\ pc' # "in_handler"
          /\ CurrentNode \in DOMAIN node_results'
          /\ node_results'[CurrentNode] =
                NodeResult(CurrentNode, "failed", None,
                           Error(UnresolvedError(UnresolvedPaths(CurrentNode))))]_vars

\* C6: if validate reports at least one error, execute returns status failed
\* with a top-level error and empty node_results, and evaluates no condition
\* and invokes no handler.
C6_InvalidWorkflowRunsNothing ==
    (Validated /\ Len(validation.errors) > 0)
    => /\ Done
       /\ result.status = "failed"
       /\ result.error # None
       /\ DOMAIN result.node_results = {}
       /\ DOMAIN node_results = {}
       /\ events = <<>>

\* a workflow whose only error is a reference to an undefined variable
C6_Witness ==
    /\ Done
    /\ Len(validation.errors) = 1
    /\ validation.errors[1].kind = "undefined_reference"
    /\ result.status = "failed"

\* the condition is one reference, and it resolves to False
SingleReferenceToFalse(cond, ctx) ==
    /\ cond # NoCondition
    /\ Len(cond[2]) = 1
    /\ IsRef(cond[2][1])
    /\ ResolveVariablePath(cond[2][1], ctx) =
          [value |-> BoolV(FALSE), unresolved |-> {}, raised |-> FALSE]

\* C7: a node whose condition evaluates falsy, a condition that is exactly
\* one reference resolving to a false value included, is recorded skipped,
\* gets a null entry in context.node_results, and its handler is not invoked.
C7_FalsyConditionSkips ==
    [][(/\ pc = "loop"
        /\ idx <= Len(sorted_nodes)
        /\ \/ ConditionOutcome(condition[CurrentNode], context) = "false"
           \/ SingleReferenceToFalse(condition[CurrentNode], context))
       => /\ pc' = "loop"
          /\ CurrentNode \in DOMAIN node_results'
          /\ node_results'[CurrentNode] = NodeResult(CurrentNode, "skipped", None, None)
          /\ CurrentNode \in DOMAIN context'.node_results
          /\ context'.node_results[CurrentNode] = None
          /\ events' = Append(events, <<"condition", CurrentNode, "false">>)]_vars

ConditionRaised(i) == events[i][1] = "condition" /\ events[i][3] = "raised"

\* C8: if resolving the variables of a node's condition or evaluating it
\* raises, the node is executed (its config is resolved and, unless that
\* fails, its handler is invoked) and not skipped; the condition error does
\* not fail the node or abort the run.
C8_ConditionErrorExecutes ==
    \A i \in 1..Len(events) : ConditionRaised(i) =>
        LET n == events[i][2] IN
        /\ Recorded(n) => StatusOf(n) # "skipped"
        /\ \/ i = Len(events) /\ pc = "execute_node" /\ ~Recorded(n)
           \/ i = Len(events) /\ Recorded(n) /\ StatusOf(n) = "failed"
              /\ node_results[n].error[2].kind = "unresolved"
           \/ i < Len(events) /\ events[i + 1] = <<"handler_start", n, "">>

\* the condition of a could not be resolved, that of b could not be
\* evaluated, and both nodes ran
C8_Witness ==
    /\ Done
    /\ Len(events) = 6
    /\ events[1] = <<"condition", "a", "raised">>
    /\ events[4] = <<"condition", "b", "raised">>
    /\ condition["a"] = Condition(<<Ref(<<"nope">>, <<>>), Lit(" > 1")>>)
    /\ condition["b"] = Condition(<<Ref(<<"flag">>, <<>>)>>)
    /\ StatusOf("a") = "success"
    /\ StatusOf("b") = "success"

RunCompleted ==
    /\ Done
    /\ validation.is_valid
    /\ result.error = None
    /\ DOMAIN result.node_results = Range(nodes)

\* C9: a run in which at least one node failed, every failed node has
\* on_error = continue, and the remaining nodes completed, ends with run
\* status partial, not failed.
C9_ContinuedFailureIsPartial ==
    (/\ RunCompleted
     /\ \E n \in Range(nodes) : result.node_results[n].status = "failed"
     /\ \A n \in Range(nodes) : result.node_results[n].status = "failed"
                                  => on_error[n] = StrV("continue"))
    => result.status = "partial"

NoNodeFailed ==
    \A n \in Range(nodes) : result.node_results[n].status \in {"success", "skipped"}

\* C10, as claimed: a run that passes validation and in which every node
\* succeeded or was skipped ends with run status success.
C10_NoFailureIsSuccess ==
    (RunCompleted /\ NoNodeFailed) => result.status = "success"

\* C10, amended: such a run ends with status success when every node
\* succeeded, and with status partial when at least one node was skipped.
C10_SkippedIsPartial ==
    (RunCompleted /\ NoNodeFailed)
    => result.status =
          IF \E n \in Range(nodes) : result.node_results[n].status = "skipped"
          THEN "partial" ELSE "success"

\* a was skipped, b succeeded, and the run is partial
C10_Witness ==
    /\ RunCompleted
    /\ nodes = <<"a", "b">>
    /\ result.node_results["a"].status = "skipped"
    /\ result.node_results["b"].status = "success"
    /\ result.status = "partial"

-----------------------------------------------------------------------------
(* Further claims about execute, checked under Spec *)

NoAbortingFailure == \A n \in Range(nodes) : ~FailedAborting(n)

\* C11: if the workflow passes validation and no node fails with on_error
\* other than 'continue', the run ends with node_results holding an entry for
\* every node of the workflow: the nodes after a skipped node or after a
\* failed node with on_error = continue, its dependents included, are still
\* processed.
C11_EveryNodeIsRecorded ==
    (Done /\ validation.is_valid /\ NoAbortingFailure)
    => /\ result.error = None
       /\ DOMAIN result.node_results = Range(nodes)
       /\ \A n \in Range(nodes) : result.node_results[n].node_id = n

\* a was skipped, and b, which depends on a, ran
C11_Witness ==
    /\ RunCompleted
    /\ nodes = <<"a", "b">>
    /\ depends_on["b"] = <<"a">>
    /\ result.node_results["a"].status = "skipped"
    /\ result.node_results["b"].status = "success"

-----------------------------------------------------------------------------
(* Claims about validate_dependencies and topological_sort, checked under
   SpecSort *)

\* the (node, position in its depends_on) pairs whose id is the id of no node
DanglingEntries ==
    {e \in Range(nodes) \X UNION {DOMAIN depends_on[n] : n \in Range(nodes)} :
        /\ e[2] \in DOMAIN depends_on[e[1]]
        /\ depends_on[e[1]][e[2]] \notin Range(nodes)}

\* the errors reported for node n about id d
ErrorsAbout(errs, n, d) ==
    {i \in 1..Len(errs) : errs[i].node = n /\ errs[i].ref = d}

\* C12: validate_dependencies returns one error for each (node, depends_on
\* entry) pair whose id is the id of no node, returns the empty list when
\* every id exists, and never raises.
C12_OneErrorPerDanglingEntry ==
    dep_errors # NotCalled =>
        /\ dep_errors[1] = "return"
        /\ Len(dep_errors[2]) = Cardinality(DanglingEntries)
        /\ \A e \in DanglingEntries :
             Cardinality(ErrorsAbout(dep_errors[2], e[1], depends_on[e[1]][e[2]]))
               = Cardinality({f \in DanglingEntries :
                                f[1] = e[1] /\ depends_on[f[1]][f[2]] = depends_on[e[1]][e[2]]})
        /\ (NoDangling(nodes, depends_on) => dep_errors[2] = <<>>)

\* a names a missing id and a node, b names the missing id, c names nothing
C12_Witness ==
    /\ depends_on["a"] = <<GhostId, "b">>
    /\ depends_on["b"] = <<GhostId>>
    /\ depends_on["c"] = <<>>
    /\ dep_errors # NotCalled
    /\ Len(dep_errors[2]) = 2

\* C13: topological_sort reports a circular dependency only when the
\* depends_on graph contains a cycle; a workflow without a cycle, one with a
\* depends_on id that names no node or with a repeated id included, is not
\* reported as circular.
C13_CircularOnlyWhenCyclic ==
    SortRaised => HasCycle(nodes, depends_on)

\* the dependency of n that stands last in the order: when it is popped, n
\* becomes ready
ReleasedBy(n, order) ==
    CHOOSE d \in Range(depends_on[n]) :
        \A e \in Range(depends_on[n]) : IndexOf(e, order) <= IndexOf(d, order)

\* n and m become ready at the same step: both have no dependency, or both
\* are released by the same node
ReadyTogether(n, m, order) ==
    \/ depends_on[n] = <<>> /\ depends_on[m] = <<>>
    \/ /\ depends_on[n] # <<>>
       /\ depends_on[m] # <<>>
       /\ ReleasedBy(n, order) = ReleasedBy(m, order)

\* C14: topological_sort is deterministic (a second call on the same workflow
\* returns what the first returned), and nodes that become ready at the same
\* step stand in the result in the relative order they have in nodes.
C14_SortIsStable ==
    /\ [](SortReturned =>
            \A n, m \in Range(nodes) :
                (/\ ReadyTogether(n, m, sort_result[2])
                 /\ IndexOf(n, nodes) < IndexOf(m, nodes))
                => IndexOf(n, sort_result[2]) < IndexOf(m, sort_result[2]))
    /\ [][sort_result # NotCalled => sort_result' = sort_result]_vars

\* c has no dependency, a and b are both released by c and keep their order
C14_Witness ==
    /\ depends_on["a"] = <<"c">>
    /\ depends_on["b"] = <<"c">>
    /\ depends_on["c"] = <<>>
    /\ sort_result = Return(<<"c", "a", "b">>)

-----------------------------------------------------------------------------
(* Claims about validate and _resolve_variables, checked under SpecResolve *)

ResolveCalled == resolved # NotCalled

ValidateCalled == events = <<<<"validate", "", "">>>>

\* the references of b's config whose first segment is neither a workflow
\* variable nor a node id
UndefinedReferences ==
    {m \in Range(ConfigMatches(config["b"])) :
        m[2][1] \notin DOMAIN variables \cup Range(nodes)}

\* C15: when the config of a node holds a reference whose first segment is
\* neither a workflow variable nor a node id, validate returns is_valid =
\* false with an error naming that path (filters stripped), and resolving the
\* config of that node fails with an error naming that path.
C15_UndefinedReferenceIsReported ==
    \A m \in UndefinedReferences :
        /\ ValidateCalled =>
             /\ ~validation.is_valid
             /\ \E i \in 1..Len(validation.errors) :
                  validation.errors[i] =
                     [kind |-> "undefined_reference", node |-> "b",
                      ref |-> PathText(m[2])]
        /\ ResolveCalled =>
             /\ resolved[1] = "raise"
             /\ PathText(m[2]) \in resolved[2].paths

\* the call returned the resolved config
ResolveReturned == ResolveCalled /\ resolved[1] = "return" /\ Len(config["b"]) = 1

\* the string under the key message of b's config
Message == config["b"][1][2]

\* a string that is exactly one reference, without filter, to a variable
IsVariableReference(tmpl) ==
    /\ Len(tmpl) = 1
    /\ IsRef(tmpl[1])
    /\ tmpl[1][3] = <<>>
    /\ Len(tmpl[1][2]) = 1
    /\ tmpl[1][2][1] \in DOMAIN variables \ DOMAIN context.node_results

\* a string with text around its references, or with several references
IsMixed(tmpl) == Matches(tmpl) # <<>> /\ Len(tmpl) > 1

\* C16: a config string that is exactly one reference resolves to the
\* referenced value with its native type; a string with other text or
\* several references resolves to a string in which each reference is
\* replaced by the text of its value (x = 5: '{{x}}' gives the integer 5,
\* 'val={{x}}' gives the string 'val=5').
C16_NativeOrText ==
    ResolveReturned =>
        /\ IsVariableReference(Message)
             => resolved[2]["message"] = variables[Message[1][2][1]]
        /\ IsMixed(Message) => IsStr(resolved[2]["message"])
        /\ Message = <<Ref(<<"x">>, <<>>)>> => resolved[2]["message"] = IntV(5)
        /\ Message = <<Lit("val="), Ref(<<"x">>, <<>>)>>
             => resolved[2]["message"] = StrV("val=5")
        /\ Message = <<Ref(<<"x">>, <<>>), Lit("-"), Ref(<<"name">>, <<>>)>>
             => resolved[2]["message"] = StrV("5-ada")
        /\ Message = <<Ref(<<"flag">>, <<>>), Lit("!")>>
             => resolved[2]["message"] = StrV("true!")

\* '{{items}}' resolved to the list itself
C16_Witness ==
    /\ ResolveReturned
    /\ Message = <<Ref(<<"items">>, <<>>)>>
    /\ resolved[2]["message"] = ListV(<<StrV("ada"), IntV(2), IntV(3)>>)

\* the value under key k of the output of node a, None when the output is no
\* dict or has no such key
OutputOfA(k) ==
    LET out == context.node_results["a"] IN
    IF IsDict(out) /\ k \in DOMAIN out[2] THEN out[2][k] ELSE None

\* C17: a reference whose first segment is a node id present in
\* context.node_results is resolved only by walking that node's output; the
\* variables are used only when the first segment is absent from
\* node_results. The name a is a variable and a node id: '{{a.k}}' yields the
\* variable's k before node a has a context entry and the output's k after.
C17_NodeResultsBeforeVariables ==
    (ResolveCalled /\ Message = <<Ref(<<"a", "k">>, <<>>)>>) =>
        IF "a" \in DOMAIN context.node_results
        THEN IF IsNone(OutputOfA("k"))
             THEN resolved = Raise(UnresolvedError({"a.k"}))
             ELSE resolved = Return([message |-> OutputOfA("k")])
        ELSE resolved = Return([message |-> variables["a"][2]["k"]])

\* node a has an output without the key k, the variable a has the key: the
\* reference is unresolved
C17_Witness ==
    /\ Message = <<Ref(<<"a", "k">>, <<>>)>>
    /\ context.node_results = [a |-> DictV([j |-> IntV(7)])]
    /\ variables["a"] = DictV([k |-> IntV(0)])
    /\ resolved = Raise(UnresolvedError({"a.k"}))

\* a string that is one reference to a variable, with filters
IsFilteredReference(tmpl) ==
    /\ Len(tmpl) = 1
    /\ IsRef(tmpl[1])
    /\ tmpl[1][3] # <<>>
    /\ Len(tmpl[1][2]) = 1
    /\ tmpl[1][2][1] \in DOMAIN variables \ DOMAIN context.node_results

\* the second filter applied to the result of the first
Piped(value, f1, f2) == ApplyFilter(ApplyFilter(value, f1)[2], f2)[2]

MessageIs(path, filters) == Message = <<Ref(path, filters)>>

\* C18: in 'path | f1 | f2 | ...' the base path is resolved first and the
\* filters are applied left to right, each to the result of the one before:
\* items = [..3 items..] with 'items | length' gives 3, name = 'ada' with
\* 'name | upper' gives 'ADA', 's | trim | upper' is upper(trim(s)).
C18_FiltersLeftToRight ==
    ResolveReturned =>
        /\ MessageIs(<<"items">>, <<"length">>) => resolved[2]["message"] = IntV(3)
        /\ MessageIs(<<"name">>, <<"upper">>) => resolved[2]["message"] = StrV("ADA")
        /\ MessageIs(<<"s">>, <<"trim", "upper">>)
             => resolved[2]["message"] = StrV(PyUpper(PyStrip(variables["s"][2])))
        /\ MessageIs(<<"items">>, <<"first", "length">>)
             => resolved[2]["message"] = IntV(Len(variables["items"][2][1][2]))
        /\ MessageIs(<<"name">>, <<"length", "upper">>)
             => resolved[2]["message"] = StrV("3")
        /\ (IsFilteredReference(Message) /\ Len(Message[1][3]) = 2)
             => LET v == Piped(variables[Message[1][2][1]],
                               Message[1][3][1], Message[1][3][2])
                IN  ~IsNone(v) => resolved[2]["message"] = v

\* 'items | first | length': the length of the first item, and not the first
\* item of the length
C18_Witness ==
    /\ ResolveReturned
    /\ MessageIs(<<"items">>, <<"first", "length">>)
    /\ resolved[2]["message"] = IntV(3)

-----------------------------------------------------------------------------
(* C19, C20: what a failing transform or function_call node leaves behind *)

\* the handler of the current node is about to return or raise
InHandlerOf(type) == pc = "in_handler" /\ node_type[CurrentNode] = type

\* the evaluation of the current transform node's expression raises
EvaluationRaises == TransformTry(handler_config)[1] = "raise"

\* the step recorded the current node as failed, with an error and no output
RecordedFailed ==
    /\ node_results'[CurrentNode].status = "failed"
    /\ node_results'[CurrentNode].output = None
    /\ node_results'[CurrentNode].error # None

\* C19: when the evaluation of a transform node's expression raises, the
\* node is recorded failed with the error and no output; no substitute data
\* is returned in place of the failed evaluation.
C19_FailedEvaluationFailsNode ==
    [][(InHandlerOf("transform") /\ EvaluationRaises) => RecordedFailed]_vars

\* a dict saying that the operation could not be executed
IsErrorPayload(v) ==
    /\ IsDict(v)
    /\ \/ "error" \in DOMAIN v[2]
       \/ "status" \in DOMAIN v[2] /\ v[2]["status"] = StrV("todo")

\* C20: a function_call node whose operation could not be executed
\* (function_name missing, HTTP error, operation not found or not
\* implemented) is recorded failed, never success with an error payload as
\* its output.
C20_NoSuccessWithErrorPayload ==
    \A n \in DOMAIN node_results :
        (node_type[n] = "function_call" /\ node_results[n].status = "success")
            => ~IsErrorPayload(node_results[n].output)

-----------------------------------------------------------------------------
(* C21: a node of a type no handler is registered for *)

UnknownType(n) == ~HasHandler(node_type[n])

\* validate's verdict on the same workflow with every node of type log
ValidIfAllLog ==
    Validate(nodes, depends_on, [n \in Range(nodes) |-> "log"], condition,
             config, variables).is_valid

\* validate warned about the type of node n
TypeWarning(n) ==
    \E i \in DOMAIN validation.warnings :
        validation.warnings[i] =
            [kind |-> "unsupported_type", node |-> n, ref |-> node_type[n]]

\* C21: for a node whose type has no registered handler validate produces
\* a warning and no error (is_valid is what it would be with a known type),
\* and the node, once dispatched, goes to the passthrough handler and is
\* recorded success with its resolved config as output; the run goes on.
C21_UnknownTypePassesThrough ==
    /\ [](Validated =>
            /\ \A n \in Range(nodes) : UnknownType(n) => TypeWarning(n)
            /\ validation.is_valid = ValidIfAllLog)
    /\ [][(pc = "in_handler" /\ UnknownType(CurrentNode)) =>
            /\ node_results'[CurrentNode] =
                   NodeResult(CurrentNode, "success", DictV(handler_config), None)
            /\ pc' = "loop"]_vars

\* a run with a node of unknown type ended: the node was warned about and
\* is recorded success with the resolved message as its output
C21_Witness ==
    /\ RunCompleted
    /\ \E n \in DOMAIN node_results :
          /\ UnknownType(n)
          /\ TypeWarning(n)
          /\ node_results[n].status = "success"
          /\ node_results[n].output = DictV([message |-> StrV("x=5")])

-----------------------------------------------------------------------------
(* C22: the warnings of the returned result *)

\* C22: the WorkflowExecutionResult returned by execute carries, on every
\* return path, a warnings field holding exactly the warnings validate
\* produced.
C22_ResultCarriesWarnings ==
    Done => /\ "warnings" \in DOMAIN result
            /\ result["warnings"] = validation.warnings

-----------------------------------------------------------------------------
(* C23: warnings do not block a run *)

\* node n has a condition
Conditional(n) ==
    /\ n \in Range(nodes)
    /\ condition[n] # NoCondition
    /\ RawText(condition[n][2]) # ""

\* the references of node n's config to a node that has a condition
ConditionalReferences(n) ==
    {ConfigMatches(config[n])[k] : k \in
        {j \in DOMAIN ConfigMatches(config[n]) :
            Conditional(ConfigMatches(config[n])[j][2][1])}}

\* validate reported reference part of node n as an error
ReferenceError(n, part) ==
    \E i \in DOMAIN validation.errors :
        validation.errors[i] =
            [kind |-> "undefined_reference", node |-> n, ref |-> PathText(part[2])]

\* validate warned about node n referring to the conditional node m
ReferenceWarning(n, m) ==
    \E i \in DOMAIN validation.warnings :
        /\ validation.warnings[i].node = n
        /\ validation.warnings[i].ref = m
        /\ validation.warnings[i].kind =
              IF InSeq(m, depends_on[n]) THEN "conditional_dependency"
              ELSE "conditional_without_dependency"

\* C23: is_valid is true exactly when there are no errors, whatever the
\* warnings; a reference to a node that has a condition, listed in
\* depends_on or not, gives a warning and never an error; and execute goes
\* on to run the nodes when validate returned no errors.
C23_WarningsNeverBlock ==
    /\ [](Validated =>
            /\ validation.is_valid <=> validation.errors = <<>>
            /\ \A n \in Range(nodes) : \A part \in ConditionalReferences(n) :
                  ~ReferenceError(n, part) /\ ReferenceWarning(n, part[2][1]))
    /\ [][(pc = "execute" /\ validation'.errors = <<>>) => pc' = "loop"]_vars

\* a run whose validation gave a warning about a reference to a conditional
\* node, and no error, has executed a handler
C23_Witness ==
    /\ RunCompleted
    /\ \E n \in Range(nodes) : ConditionalReferences(n) # {}
    /\ validation.warnings # <<>>
    /\ \E i \in DOMAIN events : events[i][1] = "handler_end"

-----------------------------------------------------------------------------
(* C24: variables supplied by the caller of execute() *)

\* the value the caller's override rule gives key: the caller's, else the
\* workflow's
CallerValue(key) ==
    IF key \in DOMAIN initial_context THEN initial_context[key] ELSE variables[key]

\* every node's message is one reference, to a key the workflow or the
\* caller defines
MessagesAreDefinedKeys ==
    \A n \in Range(nodes) :
        /\ config[n] \in {ConfigWorkflowKey, ConfigCallerKey}
        /\ config[n][1][2][1][2][1] \in DOMAIN variables \cup DOMAIN initial_context

\* the log node n was run with the caller's view of its message
LoggedCallerValue(n) ==
    /\ Recorded(n)
    /\ node_results[n].status = "success"
    /\ node_results[n].output =
          DictV([logged |-> BoolV(TRUE),
                 message |-> CallerValue(config[n][1][2][1][2][1])])

\* C24: in a run started by execute(workflow, variables) a reference to a
\* key supplied by the caller resolves to the caller's value, both when
\* workflow.variables defines the key too and when only the caller does.
C24_CallerValueIsUsed ==
    (Done /\ MessagesAreDefinedKeys) => \A n \in Range(nodes) : LoggedCallerValue(n)

\* the same for the keys workflow.variables defines: the override wins
C24_OverrideWins ==
    (Done /\ \A n \in Range(nodes) : config[n] = ConfigWorkflowKey)
        => \A n \in Range(nodes) : LoggedCallerValue(n)

\* a run in which the caller overrode x has logged the caller's 7
C24_OverrideWitness ==
    /\ Done
    /\ nodes # <<>>
    /\ \A n \in Range(nodes) : config[n] = ConfigWorkflowKey
    /\ "x" \in DOMAIN initial_context
    /\ \A n \in Range(nodes) : LoggedCallerValue(n)

-----------------------------------------------------------------------------
(* C25: one node at a time, in the order of topological_sort *)

IsConditionEvent(e) == e[1] = "condition"

\* the nodes the loop has started, in the order it started them
StartedNodes == SelectSeq(events, IsConditionEvent)

\* a handler is started right after the condition check of its node, and
\* has ended before anything else happens
HandlersDoNotOverlap ==
    \A i \in DOMAIN events :
        events[i][1] = "handler_start" =>
            /\ i > 1
            /\ events[i - 1][1] = "condition"
            /\ events[i - 1][2] = events[i][2]
            /\ events[i - 1][3] # "false"
            /\ i < Len(events) =>
                  /\ events[i + 1][1] = "handler_end"
                  /\ events[i + 1][2] = events[i][2]

\* the started nodes are the first ones of the order topological_sort gives
StartedInSortOrder ==
    StartedNodes # <<>> =>
        /\ TopologicalSort(nodes, depends_on)[1] = "return"
        /\ Len(StartedNodes) <= Len(TopologicalSort(nodes, depends_on)[2])
        /\ \A k \in DOMAIN StartedNodes :
              StartedNodes[k][2] = TopologicalSort(nodes, depends_on)[2][k]

\* C25: within one run at most one node handler is in progress: a node's
\* condition check or handler starts only after the handler started before
\* it has returned or raised, and the nodes are started in exactly the order
\* topological_sort returns.
C25_OneNodeAtATime ==
    /\ HandlersDoNotOverlap
    /\ StartedInSortOrder
    /\ pc = "in_handler" <=>
          (events # <<>> /\ events[Len(events)][1] = "handler_start")

\* a finished run of two handlers whose order is not that of the nodes list
C25_Witness ==
    /\ RunCompleted
    /\ Len(nodes) = 2
    /\ depends_on[nodes[1]] = <<nodes[2]>>
    /\ Len(SelectSeq(events, LAMBDA e : e[1] = "handler_end")) = 2
    /\ StartedNodes[1][2] = nodes[2]

-----------------------------------------------------------------------------
(* C26: two runs in progress at once do not share a context *)

\* the context of call r holds what call r recorded as success or skipped
ContextHoldsOwnResults(r) ==
    /\ DOMAIN runs[r].context.node_results =
          {n \in DOMAIN runs[r].node_results :
              runs[r].node_results[n].status \in {"success", "skipped"}}
    /\ \A n \in DOMAIN runs[r].context.node_results :
          runs[r].context.node_results[n] = runs[r].node_results[n].output

\* the config the handler of call r was given was resolved from what call r
\* wrote
ResolvedFromOwnContext(r) ==
    runs[r].pc = "in_handler" =>
        runs[r].handler_config =
            ResolveVariables(config[RunNode(r)], runs[r].context)[2]

\* C26: each execute call has its own ExecutionContext: when two runs of
\* one workflow on one executor are interleaved, what one run writes (a
\* node output, a skip marker) is never read by the variable resolution of
\* the other, a step of one run changes nothing of the other, and each
\* run's node_results holds only what that run produced.
C26_RunsAreIsolated ==
    /\ [](\A r \in RunIds : ContextHoldsOwnResults(r) /\ ResolvedFromOwnContext(r))
    /\ [][\A r \in RunIds :
            runs'[r] # runs[r] => \A q \in RunIds \ {r} : runs'[q] = runs[q]]_vars

\* run 1 is in progress and holds the output of node a; run 2, in which a
\* failed, could not resolve b's reference to a
C26_Witness ==
    /\ runs[1].pc \in {"loop", "execute_node", "in_handler"}
    /\ "a" \in DOMAIN runs[1].context.node_results
    /\ runs[1].context.node_results["a"] # None
    /\ "b" \in DOMAIN runs[2].node_results
    /\ config["b"] = ConfigNodeData
    /\ runs[2].node_results["a"].status = "failed"
    /\ runs[2].node_results["b"].status = "failed"

-----------------------------------------------------------------------------
(* C27: the shape of a NodeResult *)

\* the NodeResult nr is stored under key
WellFormedNodeResult(key, nr) ==
    /\ nr.node_id = key
    /\ nr.status = "success" => nr.error = None
    /\ nr.status = "failed" => nr.output = None /\ nr.error # None
    /\ nr.status = "skipped" => nr.output = None /\ nr.error = None

\* C27: in every WorkflowExecutionResult each NodeResult has a null error
\* when its status is success, a null output and a non-null error when it
\* is failed, a null output and a null error when it is skipped, and a
\* node_id equal to the key it is stored under.
C27_NodeResultsAreWellFormed ==
    /\ \A n \in DOMAIN node_results : WellFormedNodeResult(n, node_results[n])
    /\ Done => \A n \in DOMAIN result.node_results :
                  WellFormedNodeResult(n, result.node_results[n])

\* a returned result with a failed node and a skipped node
C27_Witness ==
    /\ Done
    /\ \E n \in DOMAIN result.node_results : result.node_results[n].status = "failed"
    /\ \E n \in DOMAIN result.node_results : result.node_results[n].status = "skipped"

-----------------------------------------------------------------------------
(* C28: what context.node_results holds during a run *)

\* the handler of node n has returned
HandlerReturned(n) ==
    \E i \in DOMAIN events : events[i] = <<"handler_end", n, "return">>

\* C28: at every point of a run the keys of context.node_results are the
\* ids of the nodes recorded so far as success or skipped; the entry of a
\* successful node is its handler's output, written only after the handler
\* returned, the entry of a skipped node is null, and a failed node has no
\* entry.
C28_ContextHoldsFinishedNodes ==
    /\ DOMAIN context.node_results =
          {n \in DOMAIN node_results :
              node_results[n].status \in {"success", "skipped"}}
    /\ \A n \in DOMAIN context.node_results :
          /\ context.node_results[n] = node_results[n].output
          /\ node_results[n].status = "success" => HandlerReturned(n)
          /\ node_results[n].status = "skipped" => context.node_results[n] = None
    /\ pc \in {"execute_node", "in_handler"} =>
          CurrentNode \notin DOMAIN context.node_results

\* a finished run with a successful node, whose output is in the context,
\* and a failed node, which has no entry
C28_Witness ==
    /\ RunCompleted
    /\ \E n \in DOMAIN node_results :
          /\ node_results[n].status = "success"
          /\ context.node_results[n] # None
    /\ \E n \in DOMAIN node_results :
          /\ node_results[n].status = "failed"
          /\ n \notin DOMAIN context.node_results

-----------------------------------------------------------------------------
(* C29: one handler call per node, and results that stay *)

\* how often the handler of node n was invoked
HandlerCalls(n) ==
    Cardinality({i \in DOMAIN events : events[i] = <<"handler_start", n, "">>})

\* C29: in one run the handler of each node (the nodes have distinct ids) is
\* invoked at most once, whatever the node's retry, timeout or on_error,
\* and a NodeResult, once recorded, is never replaced or changed.
C29_OneCallAndResultsStay ==
    /\ [](\A n \in Range(nodes) : HandlerCalls(n) <= 1)
    /\ [](Done /\ validation.is_valid => result.node_results = node_results)
    /\ [][\A n \in DOMAIN node_results :
            n \in DOMAIN node_results' /\ node_results'[n] = node_results[n]]_vars

\* a finished run in which a node with a retry configuration, a timeout and
\* on_error = retry failed after one call of its handler
C29_Witness ==
    /\ RunCompleted
    /\ \E n \in DOMAIN node_results :
          /\ on_error[n] = StrV("retry")
          /\ retry[n] # None
          /\ timeout[n] # None
          /\ node_results[n].status = "failed"
          /\ HandlerCalls(n) = 1

-----------------------------------------------------------------------------
(* C30: topological_sort, validate_dependencies and validate change nothing *)

\* the step leaves the workflow as it is
WorkflowUnchanged ==
    /\ nodes' = nodes
    /\ depends_on' = depends_on
    /\ config' = config
    /\ condition' = condition
    /\ variables' = variables

\* the step starts no handler and touches nothing a run works on
NothingRun ==
    /\ \A i \in DOMAIN events' : events'[i][1] \notin {"handler_start", "handler_end"}
    /\ UNCHANGED <<sorted_nodes, idx, context, node_results, handler_config, result>>

\* the calls made before left nothing behind for execute
FreshRun ==
    /\ sorted_nodes = <<>>
    /\ idx = 0
    /\ context = [variables |-> EmptyMap, node_results |-> EmptyMap]
    /\ node_results = EmptyMap
    /\ result = NotCalled

\* what execute works with is what the workflow gives, whatever was called
\* before
RunFromWorkflowAlone ==
    /\ validation =
          Validate(nodes, depends_on, node_type, condition, config, variables)
    /\ pc # "done" => sorted_nodes = TopologicalSort(nodes, depends_on)[2]

\* C30: topological_sort, validate_dependencies and validate have no side
\* effects: they leave the nodes list (order, ids, depends_on, config,
\* condition) and the variables unchanged and invoke no handler, and calling
\* them any number of times before execute does not change what execute
\* does.
C30_NoSideEffects ==
    /\ [][WorkflowUnchanged /\ (pc = "caller" /\ pc' = "caller" => NothingRun)]_vars
    /\ [](pc = "execute" => FreshRun)
    /\ [](pc \notin {"caller", "execute"} => RunFromWorkflowAlone)

\* the three were called, then the workflow was executed and a node ran
C30_Witness ==
    /\ RunCompleted
    /\ sort_result # NotCalled
    /\ dep_errors # NotCalled
    /\ events # <<>>
    /\ events[1] = <<"validate", "", "">>
    /\ \E n \in DOMAIN node_results : node_results[n].status = "success"

-----------------------------------------------------------------------------
(* Claims about the command-line runner, checked under SpecCLI *)

\* main() has left through sys.exit
Exited == exit_code # NotExited

\* C31: the CLI runner exits with code 0 when the executed workflow's run
\* status is success, with code 1 when the run status is failed or partial or
\* when the workflow file or the --config file cannot be loaded, and with
\* code 130 when interrupted by the user.
C31_ExitCodeFollowsRun ==
    /\ cli_pc = "finished" =>
         exit_code = IF result.status = "success" THEN 0 ELSE 1
    /\ cli_pc \in {"config_error", "load_error"} => exit_code = 1
    /\ cli_pc = "interrupted" => exit_code = 130

\* the parts of C31 that hold: a failed or partial run, a load error and an
\* interrupt give the codes 1, 1 and 130
C31_FailureCodes ==
    /\ cli_pc = "finished" /\ result.status # "success" => exit_code = 1
    /\ cli_pc \in {"config_error", "load_error"} => exit_code = 1
    /\ cli_pc = "interrupted" => exit_code = 130

\* no executed workflow makes the runner exit with 0
C31_NeverZero == exit_code # 0

C31_SuccessfulRunReported == cli_pc = "finished" /\ result.status = "success"

-----------------------------------------------------------------------------
(* Claims about references to skipped nodes and about what handlers are
   given, checked under SpecReferences *)

\* the node was skipped by its condition
Skipped(n) == n \in DOMAIN node_results /\ node_results[n].status = "skipped"

\* every reference of the config of node n names node x or a field of it
ReferencesOnly(n, x) ==
    /\ \E i \in 1..Len(config[n]) : Matches(config[n][i][2]) # <<>>
    /\ \A i \in 1..Len(config[n]) :
         \A j \in 1..Len(Matches(config[n][i][2])) :
            /\ Matches(config[n][i][2])[j][2][1] = x
            /\ Matches(config[n][i][2])[j][3] = <<>>

\* node n was failed by the ValueError of unresolved references
FailedUnresolved(n) ==
    /\ n \in DOMAIN node_results
    /\ node_results[n].status = "failed"
    /\ node_results[n].error[2].kind = "unresolved"

\* C32: after a node has been skipped by its condition, a later node whose
\* config references the skipped node, by its id alone ({{x}}) or by a field
\* of its output ({{x.field}}), is resolved without an unresolved-reference
\* error and is not failed because of that reference.
C32_SkippedReferenceResolves ==
    \A n \in Range(nodes) : \A x \in Range(nodes) :
        Skipped(x) /\ n # x /\ ReferencesOnly(n, x) => ~FailedUnresolved(n)

\* a reference to a field of the skipped node
ReferencesField(n, x) ==
    \E i \in 1..Len(config[n]) : \E j \in 1..Len(Matches(config[n][i][2])) :
        /\ Matches(config[n][i][2])[j][2][1] = x
        /\ Len(Matches(config[n][i][2])[j][2]) > 1

\* the half of C32 that holds: a reference to the skipped node by its id
\* alone does not fail the referencing node
C32_IdAloneResolves ==
    \A n \in Range(nodes) : \A x \in Range(nodes) :
        Skipped(x) /\ n # x /\ ReferencesOnly(n, x) /\ ~ReferencesField(n, x)
            => ~FailedUnresolved(n)

C32_IdAloneWitness ==
    /\ Skipped("a")
    /\ "b" \in DOMAIN node_results
    /\ config["b"] = ConfigNodeId
    /\ node_results["b"].status = "success"

\* the half that fails: a reference to a field of the skipped node never
\* resolves
C32_FieldOfSkippedFails ==
    \A n \in Range(nodes) : \A x \in Range(nodes) :
        Skipped(x) /\ n # x /\ n \in DOMAIN node_results /\ ReferencesField(n, x)
            => FailedUnresolved(n)

\* a value of the resolved config is the template string as it was written,
\* its references still in it
HasTemplateText(resolved_config, cfg) ==
    \E k \in DOMAIN resolved_config \cap ConfigKeys(cfg) :
        /\ Matches(ConfigTemplate(cfg, k)) # <<>>
        /\ resolved_config[k] = StrV(RawText(ConfigTemplate(cfg, k)))

\* a handler has been given the config _resolve_variables returned
HandlerInvoked == pc = "in_handler"

\* C33: _resolve_variables either raises or returns a configuration in which
\* every {{...}} reference has been replaced by its resolved value: it never
\* returns a configuration that still contains an unsubstituted reference
\* (when the referenced value is null, or when a filter raises), so no
\* handler is ever invoked with template text in its parameters.
C33_NoTemplateTextReachesHandler ==
    HandlerInvoked => ~HasTemplateText(handler_config, config[CurrentNode])

\* the two ways an unsubstituted reference reaches a handler: the referenced
\* node was skipped, and a filter raised
C33_SkippedReferenceReachesHandler ==
    /\ HandlerInvoked
    /\ CurrentNode = "b"
    /\ Skipped("a")
    /\ config["b"] = ConfigNodeId
    /\ handler_config = [message |-> StrV("{{a}}")]

C33_RaisingFilterReachesHandler ==
    /\ HandlerInvoked
    /\ config[CurrentNode] = ConfigFirstOfDict
    /\ handler_config = [message |-> StrV("{{d | first}}")]

-----------------------------------------------------------------------------
(* Claims about the order in which results are recorded, checked under Spec *)

\* the ids of the first k nodes of the order
FirstOf(order, k) == {order[i] : i \in 1..k}

IsPrefixOf(ids, order) == \E k \in 0..Len(order) : ids = FirstOf(order, k)

\* C34: at every point of a run and in the returned result, the ids recorded
\* in node_results form a prefix of the order returned by topological_sort,
\* recorded in that order: a node has a NodeResult only if every node before
\* it in the order has one.
C34_ResultsFormAPrefix ==
    /\ IsPrefixOf(DOMAIN node_results, sorted_nodes)
    /\ pc = "loop" => DOMAIN node_results = FirstOf(sorted_nodes, idx - 1)
    /\ pc = "done" => IsPrefixOf(DOMAIN result.node_results, sorted_nodes)

\* the run was left by break after its first node: a proper prefix
C34_Witness ==
    /\ pc = "done"
    /\ Len(sorted_nodes) = 2
    /\ DOMAIN result.node_results = {sorted_nodes[1]}

-----------------------------------------------------------------------------
(* Claims about how execute() ends, checked under SpecConditions *)

\* execute() was left by an exception instead of a return
Escaped == pc = "escaped"

\* C35: for every workflow (valid or not) whose node handlers terminate,
\* execute terminates and returns a WorkflowExecutionResult whose status is
\* one of success, failed, partial: no exception raised by validation,
\* ordering, condition evaluation, variable resolution or a handler escapes
\* from execute.
C35_ExecuteAlwaysReturns ==
    /\ ~Escaped
    /\ pc = "done" => result.status \in {"success", "failed", "partial"}
    /\ ~ENABLED Next => pc = "done"

\* what holds: a call that returns carries one of the three statuses, and a
\* run stops only by a return or by the escaping exception
C35_ReturnedStatusIsKnown ==
    /\ pc = "done" => result.status \in {"success", "failed", "partial"}
    /\ ~ENABLED Next => pc \in {"done", "escaped"}

\* only the exception that is no Exception leaves execute: a condition that
\* raises an Exception is caught (the node is executed), and so are the
\* exceptions of the resolution and of the handlers
C35_OnlySystemExitEscapes ==
    Escaped => /\ events # <<>>
               /\ events[Len(events)][1] = "condition"
               /\ events[Len(events)][3] = "exit"

C35_ConditionRaisedAndReturned ==
    /\ pc = "done"
    /\ \E i \in 1..Len(events) : events[i][1] = "condition" /\ events[i][3] = "raised"

-----------------------------------------------------------------------------
(* Claims about the task agent, checked under SpecAgent *)

\* the tool of the action is one the registry lists, or one of the
\* registry's own discovery tools
InRegistry(a) ==
    \/ <<a.tool_category, a.tool_name>> \in registry
    \/ a.tool_category = "registry" /\ a.tool_name \in RegistryMetaTools

\* the action names a step of the plan
HasPlanStep(a) == a.plan_step_id # "" /\ HasStep(plan_steps, a.plan_step_id)

StepStatusOf(steps, step_id) ==
    steps[CHOOSE i \in 1..Len(steps) : steps[i].id = step_id].status

\* what C36 asks of one execute_action(a) step on a tool outside the registry
RejectedWithoutCall(a) ==
    /\ function_calls' = function_calls
    /\ returned'.kind = "ExecutionResult"
    /\ ~returned'.success
    /\ HasPlanStep(a) => StepStatusOf(plan_steps', a.plan_step_id) = "failed"

\* C36: execute_action never calls the tool client's execute_function for an
\* action whose category/tool name is not present in the tool registry: for
\* such an action it marks the action's plan step (when the action names a
\* step of the plan) FAILED and returns an unsuccessful ExecutionResult.
C36_UnknownToolIsNeverCalled ==
    [][ /\ \A a \in Actions :
            has_session /\ ~InRegistry(a) /\ ExecuteAction(a) => RejectedWithoutCall(a)
        /\ \A i \in 1..Len(function_calls') : function_calls'[i] \in registry ]_vars

\* an action on a tool outside the registry was rejected: its step is FAILED
\* and nothing was called or added to the history
C36_Witness ==
    /\ has_session
    /\ returned = ExecutionResult(FALSE)
    /\ function_calls = <<>>
    /\ history = <<>>
    /\ \E i \in 1..Len(plan_steps) : plan_steps[i].status = "failed"

\* the registry's own discovery tools always pass _validate_tool
IsMetaTool(a) == a.tool_category = "registry" /\ a.tool_name \in RegistryMetaTools

\* the step of execute_action(a) went past the validation: the tool was
\* called
PassedValidation(a) == IsMetaTool(a) \/ function_calls' # function_calls

\* the step of the action was left COMPLETED or FAILED
StepSettled(a) ==
    HasPlanStep(a) =>
        StepStatusOf(plan_steps', a.plan_step_id) \in {"completed", "failed"}

\* what C37 asks of one execute_action(a) step on a validated tool
RecordedOnce(a) ==
    /\ returned'.kind = "ExecutionResult"
    /\ StepSettled(a)
    /\ Len(history') = Len(history) + 1
    /\ budget'.current_turn = budget.current_turn + 1
    /\ HasPlanStep(a) /\ StepStatusOf(plan_steps', a.plan_step_id) = "completed"
          => Len(completed_steps') = Len(completed_steps) + 1

\* C37: every execute_action call on an action whose tool passed validation,
\* whether the tool call reports success or failure, returns an
\* ExecutionResult, leaves the action's plan step in status COMPLETED or
\* FAILED (never IN_PROGRESS), appends exactly one entry to the session
\* history and increments budget.current_turn by exactly one; a completed
\* step is also recorded in the session's completed-steps log.
C37_ValidatedActionIsRecorded ==
    [][ \A a \in Actions :
          has_session /\ ExecuteAction(a) /\ PassedValidation(a) => RecordedOnce(a) ]_vars

\* what holds: the step is never left IN_PROGRESS, and a call that returns
\* has added one history entry and one turn
C37_StepIsSettled ==
    [][ \A a \in Actions :
          has_session /\ ExecuteAction(a) /\ PassedValidation(a) =>
            /\ StepSettled(a)
            /\ returned'.kind = "ExecutionResult" =>
                 /\ Len(history') = Len(history) + 1
                 /\ budget'.current_turn = budget.current_turn + 1 ]_vars

\* a tool call that reported success for a step of the plan never returns
C37_CompletedStepNeverReturns ==
    [][ \A a \in Actions :
          has_session /\ ExecuteAction(a) /\ PassedValidation(a) /\ HasPlanStep(a)
            /\ StepStatusOf(plan_steps', a.plan_step_id) = "completed"
          => returned' = Raised("ImportError") /\ UNCHANGED <<history, budget>> ]_vars

\* the completed-steps log is never written
C37_LogStaysEmpty == completed_steps = <<>>

C37_ImportErrorRaised ==
    /\ returned = Raised("ImportError")
    /\ \E i \in 1..Len(plan_steps) : plan_steps[i].status = "completed"

\* run_turn has reported the budget as exceeded
BudgetExceededReported ==
    \/ session_status = "budget_exceeded"
    \/ returned = TurnResult("budget_exceeded")

\* C38: the turn limit max_turns of a session is not enforced: run_turn
\* never returns status budget_exceeded, and never sets the session status
\* to BUDGET_EXCEEDED, merely because budget.current_turn has reached
\* max_turns; the budget is exhausted only by token usage reaching
\* max_tokens.
C38_OnlyTokensExhaustBudget ==
    BudgetExceededReported => budget.used_tokens >= budget.max_tokens

\* what holds: the budget is reported exceeded only when the tokens or the
\* turns have reached their limit
C38_ReportedOnlyWhenExceeded ==
    BudgetExceededReported =>
        \/ budget.used_tokens >= budget.max_tokens
        \/ budget.current_turn >= budget.max_turns

\* run_turn ends the session at the turn limit whenever it is called there
C38_TurnLimitIsEnforced ==
    [][ has_session /\ RunTurn /\ budget.current_turn >= budget.max_turns
          => /\ session_status' = "budget_exceeded"
             /\ returned' = TurnResult("budget_exceeded")
             /\ UNCHANGED budget ]_vars

C38_ExceededByTurnsAlone ==
    /\ session_status = "budget_exceeded"
    /\ returned = TurnResult("budget_exceeded")
    /\ budget.current_turn >= budget.max_turns
    /\ budget.used_tokens < budget.max_tokens

C38_ExceededByTokens ==
    /\ session_status = "budget_exceeded"
    /\ budget.used_tokens >= budget.max_tokens
    /\ budget.current_turn < budget.max_turns

====
